---- MODULE Spec2Model ----
(***************************************************************************)
(* flatten-repo (src/extension.js): the glob matcher, the rule-document    *)
(* parser, the importance scorer and the file collector of both pipeline   *)
(* variants, as state machines over JavaScript strings.                    *)
(*                                                                         *)
(* A JavaScript string is a TLA+ string; its i-th character (1-based) is   *)
(* SubSeq(s, i, i).                                                        *)
(***************************************************************************)
EXTENDS Integers, Sequences, FiniteSets, TLC

VARIABLES
  \* --- glob matcher (toRegex, RegExp.test) ---
  pattern,      \* the glob handed to toRegex
  relPath,      \* the relative path handed to RegExp.test
  regex,        \* the RegExp toRegex built
  result,       \* what regex.test(relPath) returned
  gpc,          \* "start" | "compiled" | "tested"
  \* --- rule-document parser (parseFlattenIgnore) ---
  doc,          \* flattened/.flatten_ignore: [exists, content]
  tree,         \* the workspace: directory path -> its entries, in readdir order
  lines,        \* content.split('\n').map(line => line.trim())
  lineIdx,      \* the line the for loop is at (1-based)
  section,      \* the active section, "null" before the first header
  globalArr, whitelistArr, blacklistArr, settingsObj,
  ignoreRules,  \* what parseFlattenIgnore returned
  ppc,          \* "read" | "lines" | "done"
  \* --- the command flatten-repo.flattenProjectToTxt, up to the file list ---
  variant,            \* "current" (lines 914-1340) | "earlier" (lines 1530-1708)
  includeExtensions,  \* config.get('includeExtensions')
  unreadable,         \* the directories readdir fails on
  globalRegexes, whitelistRegexes, blacklistRegexes,
  stack,              \* the active calls of collect(dir): <<[dir, idx], ...>>
  fileList,           \* the files pushed so far, by relative path
  rpc,                \* "ensure" | "parse" | "parsing" | "compile" | "collect" | "collected" | "failed"
  \* --- importance scorer (scoreFile) ---
  filePath,     \* the path handed to scoreFile
  stats,        \* [size: bytes, age: now - stats.mtime in milliseconds]
  score,        \* what scoreFile returned
  spc,          \* "call" | "returned"
  \* --- the command flatten-repo.flattenProjectToTxt, from the file list on ---
  token,              \* token.isCancellationRequested
  cancelRequestedAt,  \* where the run was when the user cancelled, "" if never
  maxChunkSize, maxFileSize,
  scoredFiles,        \* <<[file, score, size], ...>>
  fidx,               \* the index the for-of loop over fileList is at (1-based)
  results,            \* what processFilesInParallel returned
  chunks,             \* <<[content, files], ...>>
  currentChunk,       \* [content, files]
  outputFiles,        \* the files written into flattened/: <<[name, text], ...>>
  gitignore,          \* .gitignore: [exists, content]
  gitignoreWrites,    \* how many times .gitignore was written
  log,                \* console and vscode.window calls: <<[via, text], ...>>
  \* --- processFilesInParallel ---
  bFiles,       \* files
  bMax,         \* maxConcurrent
  bStart,       \* index in files of the first file of the batch awaited (1-based)
  bSlots,       \* the batch's promises: "stat" | "read" | "null" | a result
  bResults,     \* results
  bErrors,      \* errors
  bpc,          \* "batch" | "await" | "returned"
  \* --- buildDirectoryTree ---
  tPaths,       \* filePaths, the paths handed to buildDirectoryTree
  treeString,   \* what it returned
  tpc,          \* "call" | "returned"
  \* --- the workspace and its configuration ---
  rootPath,     \* workspaceFolders[0].uri.fsPath
  useGitIgnore, \* config.get('useGitIgnore'), true when it is not set
  \* --- ensureSingleFileOutput ---
  eFiles,       \* files: <<[rel, size], ...>>, sorted in place by the filter
  eMaxChunkSize,\* maxChunkSize
  eChoice,      \* what showWarningMessage resolves to, "" when dismissed
  eResult,      \* [kind, files, maxChunkSize, message, asked]
  epc,          \* "call" | "returned"
  \* --- createChunksEfficiently ---
  cFiles,       \* files: <<[rel, content], ...>>
  cResult,      \* what it returned: <<[content, files]>>
  cpc           \* "call" | "returned"

globVars == <<pattern, relPath, regex, result, gpc>>

parseVars == <<doc, tree, lines, lineIdx, section, globalArr, whitelistArr,
               blacklistArr, settingsObj, ignoreRules, ppc>>

runVars == <<variant, includeExtensions, unreadable, globalRegexes,
             whitelistRegexes, blacklistRegexes, stack, fileList, rpc>>

scoreVars == <<filePath, stats, score, spc>>

flowVars == <<token, cancelRequestedAt, maxChunkSize, maxFileSize, scoredFiles,
              fidx, results, chunks, currentChunk, outputFiles, gitignore,
              gitignoreWrites, log>>

batchVars == <<bFiles, bMax, bStart, bSlots, bResults, bErrors, bpc>>

treeVars == <<tPaths, treeString, tpc>>

configVars == <<rootPath, useGitIgnore>>

ensureVars == <<eFiles, eMaxChunkSize, eChoice, eResult, epc>>

chunkVars == <<cFiles, cResult, cpc>>

stageVars == <<configVars, ensureVars, chunkVars>>

vars == <<globVars, parseVars, runVars, scoreVars, flowVars, batchVars, treeVars,
          stageVars>>

(***************************************************************************)
(* String primitives of the JavaScript runtime.                            *)
(***************************************************************************)
\* s.charAt(i - 1): the empty string outside the string.
CharAt(s, i) == IF i \in 1..Len(s) THEN SubSeq(s, i, i) ELSE ""

\* s.slice(from - 1, to)
Slice(s, from, to) ==
  IF from > to \/ from > Len(s) THEN ""
  ELSE SubSeq(s, from, IF to > Len(s) THEN Len(s) ELSE to)

\* s.slice(i - 1)
Rest(s, i) == Slice(s, i, Len(s))

StartsWith(s, prefix) ==
  Len(s) >= Len(prefix) /\ SubSeq(s, 1, Len(prefix)) = prefix

EndsWith(s, suffix) ==
  Len(s) >= Len(suffix) /\ SubSeq(s, Len(s) - Len(suffix) + 1, Len(s)) = suffix

\* String.prototype.includes
Includes(s, part) ==
  \E i \in 1..(Len(s) - Len(part) + 1) : SubSeq(s, i, i + Len(part) - 1) = part

\* s.replace(/find/g, repl) for a literal, non-empty `find`: leftmost,
\* non-overlapping occurrences, the replacement text is not scanned again.
RECURSIVE ReplaceAll(_, _, _)
ReplaceAll(s, find, repl) ==
  IF Len(s) < Len(find) THEN s
  ELSE IF StartsWith(s, find)
       THEN repl \o ReplaceAll(Rest(s, Len(find) + 1), find, repl)
       ELSE CharAt(s, 1) \o ReplaceAll(Rest(s, 2), find, repl)

\* The characters of the class [.+^${}()|[\]\\] of toRegex's first replace.
RegexSpecials == {".", "+", "^", "$", "{", "}", "(", ")", "|", "[", "]", "\\"}

\* glob.replace(/([.+^${}()|[\]\\])/g, '\\$1')
RECURSIVE EscapeSpecials(_)
EscapeSpecials(s) ==
  IF s = "" THEN ""
  ELSE (IF CharAt(s, 1) \in RegexSpecials THEN "\\" \o CharAt(s, 1) ELSE CharAt(s, 1))
       \o EscapeSpecials(Rest(s, 2))

TWOSTAR == "<<<TWOSTAR>>>"

(***************************************************************************)
(* new RegExp(source) and RegExp.prototype.test, for the regular           *)
(* expressions toRegex can produce: `^`, `$`, an escaped character, `.`,   *)
(* a negated class `[^...]`, a literal character, each but the anchors     *)
(* optionally followed by `*`.  No flag is set: `.` matches any character  *)
(* but a line terminator, `$` matches at the end of the input only, and    *)
(* test() looks for a match starting at any position.                      *)
(***************************************************************************)
LineTerminators == {"\n", "\r"}

\* Index of the first "]" at or after i (0 when there is none).
RECURSIVE ClassEnd(_, _)
ClassEnd(src, i) ==
  IF i > Len(src) THEN 0
  ELSE IF CharAt(src, i) = "]" THEN i
  ELSE ClassEnd(src, i + 1)

RECURSIVE ParseRegExp(_, _)
ParseRegExp(src, i) ==
  IF i > Len(src) THEN <<>>
  ELSE
    LET c    == CharAt(src, i)
        last == IF c = "\\" THEN i + 1
                ELSE IF c = "[" THEN ClassEnd(src, i)
                ELSE i
        kind == IF c = "\\" THEN "lit"
                ELSE IF c = "[" THEN "notin"
                ELSE IF c = "." THEN "dot"
                ELSE IF c = "^" THEN "bol"
                ELSE IF c = "$" THEN "eol"
                ELSE "lit"
        arg  == IF c = "\\" THEN CharAt(src, i + 1)
                ELSE IF c = "[" THEN Slice(src, i + 2, last - 1)
                ELSE c
        star == CharAt(src, last + 1) = "*"
    IN  <<[kind |-> kind, arg |-> arg, star |-> star]>>
        \o ParseRegExp(src, IF star THEN last + 2 ELSE last + 1)

AtomAccepts(atom, ch) ==
  CASE atom.kind = "lit"   -> ch = atom.arg
    [] atom.kind = "dot"   -> ch \notin LineTerminators
    [] atom.kind = "notin" -> ~Includes(atom.arg, ch)
    [] OTHER               -> FALSE

\* The atoms from index k on match s from position j on.
RECURSIVE MatchFrom(_, _, _, _)
MatchFrom(atoms, k, s, j) ==
  IF k > Len(atoms) THEN TRUE
  ELSE
    LET a == atoms[k] IN
    CASE a.kind = "bol" -> j = 1 /\ MatchFrom(atoms, k + 1, s, j)
      [] a.kind = "eol" -> j = Len(s) + 1 /\ MatchFrom(atoms, k + 1, s, j)
      [] OTHER ->
           IF a.star
           THEN \/ MatchFrom(atoms, k + 1, s, j)
                \/ /\ j <= Len(s)
                   /\ AtomAccepts(a, CharAt(s, j))
                   /\ MatchFrom(atoms, k, s, j + 1)
           ELSE /\ j <= Len(s)
                /\ AtomAccepts(a, CharAt(s, j))
                /\ MatchFrom(atoms, k + 1, s, j + 1)

\* new RegExp(src): the object keeps its source and its compiled form.
NewRegExp(src) == [source |-> src, atoms |-> ParseRegExp(src, 1)]

\* No RegExp built yet.
NoRegExp == [source |-> "", atoms |-> <<>>]

\* re.test(s): a match may start at any position; one that begins with `^`
\* can start at the first only.
RegExpTest(re, s) ==
  LET starts == IF Len(re.atoms) > 0 /\ re.atoms[1].kind = "bol"
                THEN {1} ELSE 1..(Len(s) + 1)
  IN  \E start \in starts : MatchFrom(re.atoms, 1, s, start)

\* function toRegex(glob)
toRegex(glob) ==
  LET e1 == EscapeSpecials(glob)
      e2 == ReplaceAll(e1, "**", TWOSTAR)
      e3 == ReplaceAll(e2, "*", "[^/]*")
      e4 == ReplaceAll(e3, TWOSTAR, ".*")
      e5 == ReplaceAll(e4, "?", ".")
  IN  NewRegExp("^" \o e5 \o "$")

\* function matchesAny(p, regexes); also regexes.some(r => r.test(p))
matchesAny(p, regexes) ==
  \E i \in 1..Len(regexes) : RegExpTest(regexes[i], p)

\* function patternsToRegex(patterns); also patterns.map(toRegex)
patternsToRegex(patterns) ==
  [i \in 1..Len(patterns) |-> toRegex(patterns[i])]

(***************************************************************************)
(* More of the JavaScript runtime: trim, toLowerCase, split, join, Number. *)
(***************************************************************************)
WhiteSpace == {" ", "\t", "\r", "\n", "\f"}

RECURSIVE TrimStart(_)
TrimStart(s) ==
  IF s # "" /\ CharAt(s, 1) \in WhiteSpace THEN TrimStart(Rest(s, 2)) ELSE s

RECURSIVE TrimEnd(_)
TrimEnd(s) ==
  IF s # "" /\ CharAt(s, Len(s)) \in WhiteSpace
  THEN TrimEnd(Slice(s, 1, Len(s) - 1)) ELSE s

Trim(s) == TrimEnd(TrimStart(s))

UpperLetters == "ABCDEFGHIJKLMNOPQRSTUVWXYZ"
LowerLetters == "abcdefghijklmnopqrstuvwxyz"

LowerChar(c) ==
  IF Includes(UpperLetters, c)
  THEN CharAt(LowerLetters, CHOOSE i \in 1..Len(UpperLetters) : CharAt(UpperLetters, i) = c)
  ELSE c

RECURSIVE ToLowerCase(_)
ToLowerCase(s) ==
  IF s = "" THEN "" ELSE LowerChar(CharAt(s, 1)) \o ToLowerCase(Rest(s, 2))

Distance(i, j) == IF i >= j THEN i - j ELSE j - i

\* The pieces of s[a..b] between the occurrences of the character sep; the
\* range is cut at the occurrence nearest to its middle, which keeps the
\* recursion shallow on a long text.
RECURSIVE SplitRange(_, _, _, _)
SplitRange(s, sep, a, b) ==
  LET seps == {i \in a..b : CharAt(s, i) = sep} IN
  IF seps = {} THEN <<Slice(s, a, b)>>
  ELSE LET mid == (a + b) \div 2
           m   == CHOOSE i \in seps : \A j \in seps : Distance(i, mid) <= Distance(j, mid)
       IN  SplitRange(s, sep, a, m - 1) \o SplitRange(s, sep, m + 1, b)

\* s.split(sep) for a one-character separator: never the empty list.
Split(s, sep) == SplitRange(s, sep, 1, Len(s))

\* parts.join(sep)
RECURSIVE Join(_, _)
Join(parts, sep) ==
  IF Len(parts) = 0 THEN ""
  ELSE IF Len(parts) = 1 THEN parts[1]
  ELSE parts[1] \o sep \o Join(Tail(parts), sep)

Digits == "0123456789"

IsDecimal(s) == s # "" /\ \A i \in 1..Len(s) : Includes(Digits, CharAt(s, i))

DigitValue(c) == (CHOOSE i \in 1..10 : CharAt(Digits, i) = c) - 1

RECURSIVE DecimalValue(_)
DecimalValue(s) ==
  IF s = "" THEN 0
  ELSE 10 * DecimalValue(Slice(s, 1, Len(s) - 1)) + DigitValue(CharAt(s, Len(s)))

\* isNaN(Number(value)) ? value : Number(value), for a trimmed value that is
\* empty (Number('') is 0), a run of decimal digits, or text no numeric
\* literal starts with.
NumberOrText(value) ==
  IF value = "" THEN 0
  ELSE IF IsDecimal(value) THEN DecimalValue(value)
  ELSE value

(***************************************************************************)
(* The workspace.  A tree maps the relative path of each directory ("" is  *)
(* the root) to its entries in the order readdir reports them.             *)
(***************************************************************************)
File(name) == [name |-> name, dir |-> FALSE]
Dir(name) == [name |-> name, dir |-> TRUE]

\* path.join(dir, name), relative to the workspace root
JoinPath(dir, name) == IF dir = "" THEN name ELSE dir \o "/" \o name

\* The segments path.join(rootPath, p) keeps below rootPath: empty and `.`
\* segments go, `..` drops the segment before it (and stays when there is
\* none: the path has left the workspace).
RECURSIVE NormalizeSegments(_, _)
NormalizeSegments(segs, acc) ==
  IF Len(segs) = 0 THEN acc
  ELSE LET h == Head(segs) IN
       IF h = "" \/ h = "." THEN NormalizeSegments(Tail(segs), acc)
       ELSE IF h = ".." /\ Len(acc) > 0 /\ acc[Len(acc)] # ".."
            THEN NormalizeSegments(Tail(segs), SubSeq(acc, 1, Len(acc) - 1))
       ELSE NormalizeSegments(Tail(segs), Append(acc, h))

\* path.relative(rootPath, path.join(rootPath, p))
ResolveRel(p) == Join(NormalizeSegments(Split(p, "/"), <<>>), "/")

\* (await fs.stat(path.join(rootPath, p))).isDirectory(); a path that does
\* not exist makes stat throw, which processPattern catches.
IsDirectory(t, p) ==
  LET rel == ResolveRel(p) IN rel = "" \/ rel \in DOMAIN t

\* Every file and directory of the tree, by relative path.
TreePaths(t) ==
  UNION {{JoinPath(d, t[d][i].name) : i \in 1..Len(t[d])} : d \in DOMAIN t}

\* Scenario A: node_modules/x.js, src/a.js, src/a.min.js and nothing else
\* but the directory `flattened` the command makes before anything else.
\* The rule document flattened/.flatten_ignore is not listed in a tree: it
\* is `doc`, and readdir reports it when it exists (see Items).
TreeA ==
  [d \in {"", "flattened", "node_modules", "src"} |->
     CASE d = ""             -> <<Dir("flattened"), Dir("node_modules"), Dir("src")>>
       [] d = "flattened"    -> <<>>
       [] d = "node_modules" -> <<File("x.js")>>
       [] d = "src"          -> <<File("a.js"), File("a.min.js")>>]

\* A workspace after an earlier run: the output directory with an artifact, a nested source directory, a sibling whose
\* name starts with `src`, and files directly in the root.
TreeB ==
  [d \in {"", "flattened", "node_modules", "src", "src/lib", "src-other"} |->
     CASE d = ""             -> <<File("README.md"), Dir("flattened"), File("main.js"),
                                  Dir("node_modules"), Dir("src"), Dir("src-other")>>
       [] d = "flattened"    -> <<File("old.txt")>>
       [] d = "node_modules" -> <<File("x.js")>>
       [] d = "src"          -> <<File("a.js"), File("a.min.js"), Dir("lib")>>
       [] d = "src/lib"      -> <<File("b.ts")>>
       [] d = "src-other"    -> <<File("x.js")>>]

Trees == {TreeA, TreeB}

NoTree == [d \in {""} |-> <<>>]

(***************************************************************************)
(* parseFlattenIgnore                                                      *)
(***************************************************************************)
NoDoc == [exists |-> FALSE, content |-> ""]

TextDoc(text) == [exists |-> TRUE, content |-> text]

EmptyRules == [global |-> <<>>, whitelist |-> <<>>, blacklist |-> <<>>, settings |-> <<>>]

\* settingsObj[key] = value
SetKey(obj, key, value) ==
  [k \in DOMAIN obj \cup {key} |-> IF k = key THEN value ELSE obj[k]]

\* One iteration of `for (const line of lines)` (lines 68-91).
ParseLine(st, line) ==
  IF StartsWith(line, "#") \/ line = "" THEN st
  ELSE IF StartsWith(ToLowerCase(line), "global:") THEN [st EXCEPT !.section = "global"]
  ELSE IF StartsWith(ToLowerCase(line), "whitelist:") THEN [st EXCEPT !.section = "whitelist"]
  ELSE IF StartsWith(ToLowerCase(line), "blacklist:") THEN [st EXCEPT !.section = "blacklist"]
  ELSE IF StartsWith(ToLowerCase(line), "settings:") THEN [st EXCEPT !.section = "settings"]
  ELSE IF st.section = "global" THEN [st EXCEPT !.globalArr = Append(@, line)]
  ELSE IF st.section = "whitelist" THEN [st EXCEPT !.whitelistArr = Append(@, line)]
  ELSE IF st.section = "blacklist" THEN [st EXCEPT !.blacklistArr = Append(@, line)]
  ELSE IF st.section = "settings"
       THEN LET parts == Split(line, ":") IN
            IF Len(parts) >= 2
            THEN [st EXCEPT !.settingsObj =
                    SetKey(@, Trim(parts[1]), NumberOrText(Trim(Join(Tail(parts), ":"))))]
            ELSE st
  ELSE st

\* async function processPattern(pattern)
processPattern(t, pat) ==
  IF ~Includes(pat, "*") /\ ~Includes(pat, "?")
     /\ IsDirectory(t, pat) /\ ~EndsWith(pat, "/**")
  THEN pat \o "/**"
  ELSE pat

\* async function processAll(arr)
processAll(t, arr) == [i \in 1..Len(arr) |-> processPattern(t, arr[i])]

\* content.split('\n').map(line => line.trim())
SplitLines(content) ==
  LET raw == Split(content, "\n") IN [i \in 1..Len(raw) |-> Trim(raw[i])]

\* The object parseFlattenIgnore returns from the parser's locals.
RulesOf(t, st) ==
  [global    |-> processAll(t, st.globalArr),
   whitelist |-> processAll(t, st.whitelistArr),
   blacklist |-> processAll(t, st.blacklistArr),
   settings  |-> st.settingsObj]

(***************************************************************************)
(* The parser as a state machine: read the file, then one line per step,   *)
(* then expand the directory patterns and return.                          *)
(***************************************************************************)
MaxDocLines == 3

ParseLinePool ==
  {"global:", "Whitelist:", "blacklist: tmp", "settings:", "# note", "",
   "src", " src/ ", "*.js", "maxTokenLimit: 10"}

RECURSIVE DocsOver(_, _)
DocsOver(pool, n) ==
  IF n = 1 THEN pool
  ELSE LET shorter == DocsOver(pool, n - 1)
       IN  shorter \cup {text \o "\n" \o l : text \in shorter, l \in pool}

ParseDocs == {TextDoc(text) : text \in DocsOver(ParseLinePool, MaxDocLines)} \cup {NoDoc}

ParserLocals ==
  [section |-> section, globalArr |-> globalArr, whitelistArr |-> whitelistArr,
   blacklistArr |-> blacklistArr, settingsObj |-> settingsObj]

ParseIdle ==
  /\ doc = NoDoc /\ tree = NoTree /\ lines = <<>> /\ lineIdx = 0
  /\ section = "null" /\ globalArr = <<>> /\ whitelistArr = <<>>
  /\ blacklistArr = <<>> /\ settingsObj = <<>>
  /\ ignoreRules = EmptyRules /\ ppc = "idle"

RunIdle ==
  /\ variant = "none" /\ includeExtensions = {} /\ unreadable = {}
  /\ globalRegexes = <<>> /\ whitelistRegexes = <<>> /\ blacklistRegexes = <<>>
  /\ stack = <<>> /\ fileList = <<>> /\ rpc = "idle"

GlobIdle == pattern = "" /\ relPath = "" /\ regex = NoRegExp /\ result = FALSE /\ gpc = "idle"

NoStats == [size |-> 0, age |-> 0]

ScoreIdle == filePath = "" /\ stats = NoStats /\ score = 0 /\ spc = "idle"

NoChunk == [content |-> <<>>, files |-> <<>>]

NoGitignore == [exists |-> FALSE, content |-> ""]

\* The part of the command after the collection has not run yet.
FlowUnstarted ==
  /\ token = FALSE /\ cancelRequestedAt = ""
  /\ maxChunkSize = 0 /\ maxFileSize = 0
  /\ scoredFiles = <<>> /\ fidx = 0 /\ results = <<>>
  /\ chunks = <<>> /\ currentChunk = NoChunk
  /\ outputFiles = <<>> /\ gitignoreWrites = 0
  /\ log = <<>>

FlowIdle == FlowUnstarted /\ gitignore = NoGitignore

BatchIdle ==
  /\ bFiles = <<>> /\ bMax = 0 /\ bStart = 0 /\ bSlots = <<>>
  /\ bResults = <<>> /\ bErrors = <<>> /\ bpc = "idle"

TreeIdle == tPaths = <<>> /\ treeString = "" /\ tpc = "idle"

NoEnsureResult ==
  [kind |-> "none", files |-> <<>>, maxChunkSize |-> 0, message |-> "", asked |-> FALSE]

EnsureIdle ==
  /\ eFiles = <<>> /\ eMaxChunkSize = 0 /\ eChoice = ""
  /\ eResult = NoEnsureResult /\ epc = "idle"

ChunkIdle == cFiles = <<>> /\ cResult = <<>> /\ cpc = "idle"

\* A workspace at /w with useGitIgnore left at its default (line 1098).
ConfigDefault == rootPath = "/w" /\ useGitIgnore = TRUE

StageIdle == ConfigDefault /\ EnsureIdle /\ ChunkIdle

ParseInit ==
  /\ doc \in ParseDocs
  /\ tree \in Trees
  /\ lines = <<>> /\ lineIdx = 0
  /\ section = "null" /\ globalArr = <<>> /\ whitelistArr = <<>>
  /\ blacklistArr = <<>> /\ settingsObj = <<>>
  /\ ignoreRules = EmptyRules
  /\ ppc = "read"

\* lines 56-62: readFile fails and the empty rule set is returned at once,
\* or the content is split into trimmed lines.
ReadDoc ==
  /\ ppc = "read"
  /\ IF doc.exists
     THEN /\ lines' = SplitLines(doc.content)
          /\ lineIdx' = 1
          /\ ppc' = "lines"
          /\ UNCHANGED ignoreRules
     ELSE /\ ignoreRules' = EmptyRules
          /\ ppc' = "done"
          /\ UNCHANGED <<lines, lineIdx>>
  /\ UNCHANGED <<doc, tree, section, globalArr, whitelistArr, blacklistArr, settingsObj>>
  /\ UNCHANGED <<globVars, runVars, scoreVars, flowVars, batchVars, treeVars, stageVars>>

\* lines 68-91: one iteration of the loop over the lines.
ParseLineStep ==
  /\ ppc = "lines"
  /\ lineIdx <= Len(lines)
  /\ LET st == ParseLine(ParserLocals, lines[lineIdx]) IN
       /\ section' = st.section
       /\ globalArr' = st.globalArr
       /\ whitelistArr' = st.whitelistArr
       /\ blacklistArr' = st.blacklistArr
       /\ settingsObj' = st.settingsObj
  /\ lineIdx' = lineIdx + 1
  /\ UNCHANGED <<doc, tree, lines, ignoreRules, ppc>>
  /\ UNCHANGED <<globVars, runVars, scoreVars, flowVars, batchVars, treeVars, stageVars>>

\* lines 93-119: every pattern goes through processPattern; return.
ReturnRules ==
  /\ ppc = "lines"
  /\ lineIdx > Len(lines)
  /\ ignoreRules' = RulesOf(tree, ParserLocals)
  /\ ppc' = "done"
  /\ UNCHANGED <<doc, tree, lines, lineIdx, section, globalArr, whitelistArr,
                 blacklistArr, settingsObj>>
  /\ UNCHANGED <<globVars, runVars, scoreVars, flowVars, batchVars, treeVars, stageVars>>

ParseNext == ReadDoc \/ ParseLineStep \/ ReturnRules

SpecParseInit ==
  ParseInit /\ GlobIdle /\ RunIdle /\ ScoreIdle /\ FlowIdle /\ BatchIdle /\ TreeIdle
    /\ StageIdle

SpecParse == SpecParseInit /\ [][ParseNext]_vars

\* A path lies strictly under the directory with relative path dirRel.
StrictlyUnder(path, dirRel) == dirRel = "" \/ StartsWith(path, dirRel \o "/")

\* Pattern number i of a section: as written in the document and as returned.
DirectoryPatternExpanded(t, written, returned) ==
  LET dirRel == ResolveRel(written) IN
  /\ returned = written \o "/**"
  /\ \A path \in TreePaths(t) :
       /\ StrictlyUnder(path, dirRel) => RegExpTest(toRegex(returned), path)
       /\ (StartsWith(path, dirRel) /\ path # dirRel /\ ~StrictlyUnder(path, dirRel))
            => ~RegExpTest(toRegex(returned), path)

NamesDirectory(t, pat) ==
  ~Includes(pat, "*") /\ ~Includes(pat, "?") /\ IsDirectory(t, pat)

\* C7: every wildcard-free pattern of the document that names an existing
\* directory is returned as pattern/**, and the matcher compiled from that
\* accepts every path strictly under the directory and no sibling path that
\* only shares its name as a string prefix.
C7_DirectoryPatternCoversDirectory ==
  ppc = "done" =>
    /\ \A i \in 1..Len(globalArr) :
         NamesDirectory(tree, globalArr[i])
           => DirectoryPatternExpanded(tree, globalArr[i], ignoreRules.global[i])
    /\ \A i \in 1..Len(whitelistArr) :
         NamesDirectory(tree, whitelistArr[i])
           => DirectoryPatternExpanded(tree, whitelistArr[i], ignoreRules.whitelist[i])
    /\ \A i \in 1..Len(blacklistArr) :
         NamesDirectory(tree, blacklistArr[i])
           => DirectoryPatternExpanded(tree, blacklistArr[i], ignoreRules.blacklist[i])

\* The line is exactly a section keyword, whatever its case.
IsSectionHeader(line) ==
  ToLowerCase(line) \in {"global:", "whitelist:", "blacklist:", "settings:"}

\* C8: a step of the line loop changes the active section only on a line
\* that is exactly a section keyword; any other non-blank, non-comment line
\* leaves the section alone and is added to the active section (appended to
\* its pattern list, or stored under its key in the settings section).
C8_SectionSwitchOnlyOnExactHeader ==
  [][(ppc = "lines" /\ lineIdx <= Len(lines) /\ lineIdx' = lineIdx + 1) =>
       LET line == lines[lineIdx] IN
       /\ section' # section => IsSectionHeader(line)
       /\ (line # "" /\ ~StartsWith(line, "#") /\ ~IsSectionHeader(line)) =>
            /\ section' = section
            /\ section = "global" => globalArr' = Append(globalArr, line)
            /\ section = "whitelist" => whitelistArr' = Append(whitelistArr, line)
            /\ section = "blacklist" => blacklistArr' = Append(blacklistArr, line)
            /\ (section = "settings" /\ Includes(line, ":"))
                 => Trim(Split(line, ":")[1]) \in DOMAIN settingsObj'
    ]_vars

(***************************************************************************)
(* The glob matcher as a state machine: compile one pattern, test one      *)
(* path.                                                                   *)
(***************************************************************************)
MaxGlobPieces == 3
MaxPathLen == 3

\* The pieces glob patterns are built from: a letter, the separator, the
\* wildcards, a regex metacharacter, and the text toRegex uses as its
\* placeholder for `**`.
GlobPieces == {"a", "/", "*", "?", ".", TWOSTAR}

PathChars == {"a", "A", "/", "."}

RECURSIVE StringsOver(_, _)
StringsOver(pieces, n) ==
  IF n = 0 THEN {""}
  ELSE LET shorter == StringsOver(pieces, n - 1)
       IN  shorter \cup {s \o p : s \in shorter, p \in pieces}

GlobPatterns == StringsOver(GlobPieces, MaxGlobPieces)

GlobPaths == StringsOver(PathChars, MaxPathLen)

GlobInit ==
  /\ pattern \in GlobPatterns
  /\ relPath \in GlobPaths
  /\ regex = NoRegExp
  /\ result = FALSE
  /\ gpc = "start"

Compile ==
  /\ gpc = "start"
  /\ regex' = toRegex(pattern)
  /\ gpc' = "compiled"
  /\ UNCHANGED <<pattern, relPath, result>>
  /\ UNCHANGED <<parseVars, runVars, scoreVars, flowVars, batchVars, treeVars, stageVars>>

Test ==
  /\ gpc = "compiled"
  /\ result' = RegExpTest(regex, relPath)
  /\ gpc' = "tested"
  /\ UNCHANGED <<pattern, relPath, regex>>
  /\ UNCHANGED <<parseVars, runVars, scoreVars, flowVars, batchVars, treeVars, stageVars>>

GlobNext == Compile \/ Test

SpecGlobInit ==
  GlobInit /\ ParseIdle /\ RunIdle /\ ScoreIdle /\ FlowIdle /\ BatchIdle /\ TreeIdle
    /\ StageIdle

SpecGlob == SpecGlobInit /\ [][GlobNext]_vars

(***************************************************************************)
(* What a glob is to accept, read off the pattern itself: `**` any run of  *)
(* characters, `*` any run without `/`, `?` one character (any one when    *)
(* qsep, any but `/` otherwise), every other character itself; the whole   *)
(* path from its first to its last character.                              *)
(***************************************************************************)
RECURSIVE GlobAccepts(_, _, _, _, _)
GlobAccepts(p, i, s, j, qsep) ==
  IF i > Len(p) THEN j = Len(s) + 1
  ELSE IF Slice(p, i, i + 1) = "**"
       THEN \E n \in j..(Len(s) + 1) : GlobAccepts(p, i + 2, s, n, qsep)
  ELSE IF CharAt(p, i) = "*"
       THEN \E n \in j..(Len(s) + 1) :
              /\ \A m \in j..(n - 1) : CharAt(s, m) # "/"
              /\ GlobAccepts(p, i + 1, s, n, qsep)
  ELSE IF CharAt(p, i) = "?"
       THEN /\ j <= Len(s)
            /\ (qsep \/ CharAt(s, j) # "/")
            /\ GlobAccepts(p, i + 1, s, j + 1, qsep)
  ELSE /\ j <= Len(s)
       /\ CharAt(s, j) = CharAt(p, i)
       /\ GlobAccepts(p, i + 1, s, j + 1, qsep)

\* C5: the matcher toRegex builds accepts a path exactly when the whole path
\* fits the pattern with `*` a run without `/`, `**` any run, and every other
\* character of the pattern standing for itself (a `?` stands for one
\* character here; which one is C6's question).
C5_WholePathGlobSemantics ==
  gpc = "tested" => (result <=> GlobAccepts(pattern, 1, relPath, 1, TRUE))

\* C6: when a pattern holding a `?` (and not the placeholder text, which is
\* C5's case) accepts a path, the path fits the pattern with the `?` filled
\* by one character that is not `/`.
C6_QuestionMarkNeverSeparator ==
  (gpc = "tested" /\ result /\ Includes(pattern, "?") /\ ~Includes(pattern, TWOSTAR))
    => GlobAccepts(pattern, 1, relPath, 1, FALSE)

(***************************************************************************)
(* The command flatten-repo.flattenProjectToTxt of both pipelines, from    *)
(* the rule document to the collected file list.                           *)
(***************************************************************************)
DEFAULT_LIBRARY_PATTERNS ==
  <<
    "**/generated/**", "**/.generated/**", "**/auto-generated/**",
    "**/dist/**", "**/build/**", "**/out/**", "**/output/**", "**/target/**",
    "**/_build/**", "**/compiled/**", "**/transpiled/**", "**/bundles/**",
    "**/releases/**", "**/public/assets/**", "**/public/static/**",
    "**/static/generated/**", "**/lib/generated/**", "**/src/generated/**",
    "**/gen/**", "**/gen-*/**", "**/*.generated.*", "**/*-generated.*",
    "**/*.gen.*", "**/*.g.*", "**/node_modules/**", "**/bower_components/**",
    "**/vendor/**", "**/third-party/**", "**/external/**", "**/deps/**",
    "**/packages/**", "**/lib/vendor/**", "**/assets/vendor/**",
    "**/externals/**", "**/dependencies/**", "**/intermediates/**",
    "**/temp/**", "**/tmp/**", "**/.tmp/**", "**/cache/**", "**/.cache/**",
    "**/artifacts/**", "**/obj/**", "**/bin/**", "**/Debug/**",
    "**/Release/**", "**/x64/**", "**/x86/**", "**/arm64/**", "**/publish/**",
    "**/*.min.js", "**/*.min.css", "**/*.bundle.*", "**/*.chunk.*",
    "**/*.umd.*", "**/*.esm.*", "**/*.cjs.*", "**/*.module.*",
    "**/*.compiled.*", "**/*.transpiled.*", "**/*.optimized.*",
    "**/*.processed.*", "**/*.map", "**/*config.*", "**/*conf.*",
    "**/*.config.js", "**/*.config.ts", "**/*.config.json", "**/*.conf.js",
    "**/*.conf.ts", "**/*.conf.json", "**/.*rc", "**/.*rc.js", "**/.*rc.json",
    "**/.*rc.yaml", "**/.*rc.yml", "**/package-lock.json", "**/yarn.lock",
    "**/pnpm-lock.yaml", "**/*-lock.*", "**/*.lock", "**/requirements.txt",
    "**/requirements/*.txt", "**/deps.ts", "**/deps.js",
    "**/dependencies.xml", "**/*.d.ts", "**/@types/**", "**/typings/**",
    "**/types/**", "**/type-definitions/**", "**/definitions/**",
    "**/*.types.*", "**/*-types.*", "**/*-typings.*",
    "**/type-declarations/**", "**/test/**", "**/tests/**", "**/spec/**",
    "**/specs/**", "**/__tests__/**", "**/__mocks__/**",
    "**/__snapshots__/**", "**/test-*/**", "**/testing/**", "**/e2e/**",
    "**/integration/**", "**/fixtures/**", "**/mocks/**", "**/stubs/**",
    "**/*.test.*", "**/*.spec.*", "**/*.e2e.*", "**/*.fixture.*",
    "**/*.mock.*", "**/*.stub.*", "**/docs/**", "**/doc/**",
    "**/documentation/**", "**/api-docs/**", "**/api-documentation/**",
    "**/reference/**", "**/guides/**", "**/examples/**", "**/demo/**",
    "**/samples/**", "**/.idea/**", "**/.vscode/**", "**/.vs/**",
    "**/.eclipse/**", "**/.settings/**", "**/.project", "**/.classpath",
    "**/.factorypath", "**/*.sublime-*", "**/*.iml", "**/*.ipr", "**/*.iws",
    "**/.git/**", "**/.svn/**", "**/.hg/**", "**/.github/**", "**/.gitlab/**",
    "**/.bzr/**", "**/*~", "**/*.bak", "**/*.backup", "**/*.old", "**/*.orig",
    "**/*.swp", "**/*.tmp", "**/*.temp", "**/Thumbs.db", "**/.DS_Store",
    "**/resources/static/**", "**/resources/public/**",
    "**/resources/assets/**", "**/assets/generated/**",
    "**/static/generated/**", "**/public/generated/**",
    "**/resources/generated/**", "**/assets/compiled/**",
    "**/static/compiled/**", "**/public/compiled/**", "**/META-INF/**",
    "**/WEB-INF/**", "**/MANIFEST.MF", "**/manifest.*", "**/manifest-*.json",
    "**/asset-manifest.*", "**/resource-manifest.*", "**/build-manifest.*",
    "**/logs/**", "**/log/**", "**/reports/**", "**/report/**",
    "**/coverage/**", "**/.coverage/**", "**/coverage-*/**", "**/htmlcov/**",
    "**/*.log", "**/*.log.*", "**/report.*", "**/reports.*"
  >>

\* defaultIgnoreContent of the current pipeline
DefaultIgnoreContent ==
  "# .flatten_ignore\n"
  \o "# This file controls which files and directories are ignored or explicitly included during flattening.\n"
  \o "# Use glob patterns here. When a directory is specified without wildcards, it is automatically treated as \"directory/**\".\n"
  \o "#\n"
  \o "# --------------------------\n"
  \o "# Global Ignore Patterns:\n"
  \o "# These patterns are always ignored, regardless of other settings\n"
  \o "global:\n"
  \o "# Generated code and build artifacts\n"
  \o "generated/**\n"
  \o "dist/**\n"
  \o "build/**\n"
  \o "out/**\n"
  \o "target/**\n"
  \o ".next/**\n"
  \o ".nuxt/**\n"
  \o "output/**\n"
  \o "jar-resources/**\n"
  \o "flow-generated/**\n"
  \o "flow/generated/**\n"
  \o "vaadin-dev-tools/**\n"
  \o "\n"
  \o "# Package managers and dependencies\n"
  \o "node_modules/**\n"
  \o "bower_components/**\n"
  \o "jspm_packages/**\n"
  \o "vendor/**\n"
  \o "\n"
  \o "# Build configuration\n"
  \o "package-lock.json\n"
  \o "yarn.lock\n"
  \o "pnpm-lock.yaml\n"
  \o "composer.lock\n"
  \o "Gemfile.lock\n"
  \o "poetry.lock\n"
  \o "requirements.txt\n"
  \o "go.sum\n"
  \o "Cargo.lock\n"
  \o "# Generated files\n"
  \o "*.min.js\n"
  \o "*.min.css\n"
  \o "*.map\n"
  \o "*.bundle.*\n"
  \o "*.chunk.*\n"
  \o "# Documentation\n"
  \o "docs/api\n"
  \o "docs/generated\n"
  \o "api-docs\n"
  \o "jsdoc\n"
  \o "javadoc\n"
  \o "swagger\n"
  \o "# Test and example files\n"
  \o "test\n"
  \o "tests\n"
  \o "spec\n"
  \o "__tests__\n"
  \o "__mocks__\n"
  \o "fixtures\n"
  \o "mocks\n"
  \o "stubs\n"
  \o "test-data\n"
  \o "test-utils\n"
  \o "testing-utils\n"
  \o "examples\n"
  \o "demo\n"
  \o "samples\n"
  \o "# Environment and configuration\n"
  \o ".env\n"
  \o ".env.*\n"
  \o "config\n"
  \o "configs\n"
  \o "settings\n"
  \o "# IDE and editor files\n"
  \o ".vscode\n"
  \o ".idea\n"
  \o ".vs\n"
  \o ".project\n"
  \o ".settings\n"
  \o ".classpath\n"
  \o ".factorypath\n"
  \o "# Version control\n"
  \o ".git/**\n"
  \o ".svn/**\n"
  \o ".hg/**\n"
  \o ".github/**\n"
  \o "\n"
  \o "# Test and example files\n"
  \o "test/**\n"
  \o "tests/**\n"
  \o "spec/**\n"
  \o "specs/**\n"
  \o "__tests__/**\n"
  \o "__mocks__/**\n"
  \o "fixtures/**\n"
  \o "mocks/**\n"
  \o "stubs/**\n"
  \o "test-data/**\n"
  \o "test-utils/**\n"
  \o "testing-utils/**\n"
  \o "e2e/**\n"
  \o "*.test.*\n"
  \o "*.spec.*\n"
  \o "examples/**\n"
  \o "example/**\n"
  \o "demo/**\n"
  \o "demos/**\n"
  \o "samples/**\n"
  \o "\n"
  \o "# --------------------------\n"
  \o "# Local Whitelist Patterns:\n"
  \o "# These patterns are always included, even if they match global ignore patterns\n"
  \o "whitelist:\n"
  \o "# Core application code\n"
  \o "src/main/java/**/*.java\n"
  \o "src/main/kotlin/**/*.kt\n"
  \o "src/main/scala/**/*.scala\n"
  \o "src/main/python/**/*.py\n"
  \o "src/main/js/**/*.js\n"
  \o "src/main/ts/**/*.ts\n"
  \o "src/main/jsx/**/*.jsx\n"
  \o "src/main/tsx/**/*.tsx\n"
  \o "\n"
  \o "# Important configuration that should be included\n"
  \o "README.md\n"
  \o "CONTRIBUTING.md\n"
  \o "LICENSE\n"
  \o "# --------------------------\n"
  \o "# Local Blacklist Patterns:\n"
  \o "# These patterns are ignored in addition to global patterns\n"
  \o "blacklist:\n"
  \o "# Add any additional patterns specific to your project\n"
  \o "\n"
  \o "# --------------------------\n"
  \o "# Settings:\n"
  \o "# Configure token limits and other processing options\n"
  \o "settings:\n"
  \o "# Token limits for different LLMs (characters, ~4 chars per token):\n"
  \o "# - Claude 3 Opus: ~800K chars (200K tokens)\n"
  \o "# - Claude 3 Sonnet: ~512K chars (128K tokens) [DEFAULT]\n"
  \o "# - GPT-4 Turbo: ~512K chars (128K tokens)\n"
  \o "# - Claude 2: ~400K chars (100K tokens)\n"
  \o "# - GPT-4: ~128K chars (32K tokens)\n"
  \o "# - GPT-3.5 Turbo: ~64K chars (16K tokens)\n"
  \o "maxTokenLimit: 128000\n"
  \o "maxTokensPerFile: 25000\n"
  \o "# Processing options\n"
  \o "useGitIgnore: true\n"
  \o "maxConcurrentFiles: 4\n"
  \o ""

\* defaultIgnoreContent of the earlier pipeline
DefaultIgnoreContentEarlier ==
  "# .flatten_ignore\n"
  \o "# This file controls which files and directories are ignored or explicitly included during flattening.\n"
  \o "# Use glob patterns here.\n"
  \o "# When a directory is specified without wildcards, it is automatically treated as \"directory/**\".\n"
  \o "#\n"
  \o "# --------------------------\n"
  \o "# Global Ignore Patterns:\n"
  \o "global:\n"
  \o "node_modules\n"
  \o ".git\n"
  \o "dist\n"
  \o "build\n"
  \o "# --------------------------\n"
  \o "# Local Whitelist Patterns:\n"
  \o "whitelist:\n"
  \o "# Example:\n"
  \o "# src/**\n"
  \o "# lib/**/*.js\n"
  \o "# --------------------------\n"
  \o "# Local Blacklist Patterns:\n"
  \o "blacklist:\n"
  \o "# Example:\n"
  \o "# test/**\n"
  \o "# *.spec.js\n"
  \o "# --------------------------\n"
  \o "# Settings:\n"
  \o "# Set the token limits for flattening.\n"
  \o "# Suggestions:\n"
  \o "#   Claude 3.7: 128k tokens\n"
  \o "#   ChatGPT 4o: 128k tokens\n"
  \o "#   ChatGPT o3-mini-high: 200k tokens\n"
  \o "#   Claude 2: 100k tokens\n"
  \o "#   Anthropic Claude 3 Opus: 200k tokens\n"
  \o "#   Cohere Command: 32k tokens\n"
  \o "#   Google PaLM 2: 8k tokens\n"
  \o "#   Meta LLaMA 2: 4k tokens\n"
  \o "settings:\n"
  \o "maxTokenLimit: 50000\n"
  \o "maxTokensPerFile: 25000\n"
  \o ""

\* path.extname(name) for a file name: from its last `.` on, and empty when
\* the name has no `.` or only the one it starts with.
RECURSIVE LastIndexOfChar(_, _, _)
LastIndexOfChar(s, c, i) ==
  IF i = 0 \/ CharAt(s, i) = c THEN i ELSE LastIndexOfChar(s, c, i - 1)

\* path.basename(p)
basename(p) == Rest(p, LastIndexOfChar(p, "/", Len(p)) + 1)

\* path.extname(p): from the last "." of the base name on, "" when the base
\* name has none or starts with its only one.
extname(p) ==
  LET base == basename(p)
      k    == LastIndexOfChar(base, ".", Len(base))
  IN  IF k <= 1 THEN "" ELSE Rest(base, k)

\* await fs.readdir(dir, { withFileTypes: true })
Items(t, d, dir) ==
  IF dir = "flattened" /\ d.exists
  THEN <<File(".flatten_ignore")>> \o t[dir]
  ELSE t[dir]

\* await collect(fullPath): readdir fails and the call returns at once
\* (lines 1162-1167, 1618-1623), or the loop over the items starts.
CallCollect(stk, bad, dir) ==
  IF dir \in bad THEN stk ELSE Append(stk, [dir |-> dir, idx |-> 1])

\* DEFAULT_LIBRARY_PATTERNS.map(toRegex): the same in every run.
DefaultLibraryRegexes == patternsToRegex(DEFAULT_LIBRARY_PATTERNS)

\* A pipeline that compiles the document's blacklist section alone.
CompiledBlacklistDocumentOnly(v, rules) == patternsToRegex(rules.blacklist)

\* blacklistRegexes of each pipeline: the current one compiles
\* [...DEFAULT_LIBRARY_PATTERNS, ...ignoreRules.blacklist], the earlier one
\* ignoreRules.blacklist.  map() works element by element, so the regexes of
\* the spread array are those of its two parts, in order.
CompiledBlacklist(v, rules) ==
  IF v = "current"
  THEN DefaultLibraryRegexes \o patternsToRegex(rules.blacklist)
  ELSE patternsToRegex(rules.blacklist)

\* The loop body of the current pipeline without its whitelist check.
VisitCurrentNoWhitelist(relative, item, exts, gre, wre, bre) ==
  IF relative = "flattened" THEN "skip"
  ELSE IF matchesAny(relative, gre) THEN "skip"
  ELSE IF matchesAny(relative, bre) THEN "skip"
  ELSE IF item.dir THEN "descend"
  ELSE IF extname(item.name) \notin exts THEN "skip"
  ELSE "push"

\* The body of `for (const item of items)` in collect of the current
\* pipeline (lines 1174-1194): "skip", "descend" or "push".
VisitCurrent(relative, item, exts, gre, wre, bre) ==
  IF relative = "flattened" THEN "skip"
  ELSE IF matchesAny(relative, gre) THEN "skip"
  ELSE IF matchesAny(relative, bre) THEN "skip"
  ELSE IF Len(wre) > 0 /\ ~matchesAny(relative, wre) THEN "skip"
  ELSE IF item.dir THEN "descend"
  ELSE IF extname(item.name) \notin exts THEN "skip"
  ELSE "push"

\* The loop body of the earlier pipeline with a whitelist match deciding
\* before the global-ignore check.
VisitEarlierWhitelistFirst(relative, item, exts, gre, wre, bre) ==
  IF item.dir
  THEN IF matchesAny(relative, gre) THEN "skip" ELSE "descend"
  ELSE IF Len(wre) > 0 /\ matchesAny(relative, wre) THEN "push"
  ELSE IF matchesAny(relative, gre) THEN "skip"
  ELSE IF Len(wre) > 0 THEN "skip"
  ELSE IF matchesAny(relative, bre) THEN "skip"
  ELSE IF extname(item.name) \notin exts THEN "skip"
  ELSE "push"

\* The loop body of the earlier pipeline without its blacklist check.
VisitEarlierNoBlacklist(relative, item, exts, gre, wre, bre) ==
  IF item.dir
  THEN IF matchesAny(relative, gre) THEN "skip" ELSE "descend"
  ELSE IF matchesAny(relative, gre) THEN "skip"
  ELSE IF Len(wre) > 0 /\ ~matchesAny(relative, wre) THEN "skip"
  ELSE IF extname(item.name) \notin exts THEN "skip"
  ELSE "push"

\* The same in collect of the earlier pipeline (lines 1625-1636).
VisitEarlier(relative, item, exts, gre, wre, bre) ==
  IF item.dir
  THEN IF matchesAny(relative, gre) THEN "skip" ELSE "descend"
  ELSE IF matchesAny(relative, gre) THEN "skip"
  ELSE IF Len(wre) > 0 /\ ~matchesAny(relative, wre) THEN "skip"
  ELSE IF matchesAny(relative, bre) THEN "skip"
  ELSE IF extname(item.name) \notin exts THEN "skip"
  ELSE "push"

Variants == {"current", "earlier"}

\* includeExtensions: the built-in default (lines 1096, 1541) and a setting
\* that adds text files and drops TypeScript.
DefaultExtensions == {".js", ".jsx", ".ts", ".tsx", ".py", ".html", ".css"}

\* The configurations of a run: the extensions to include and the
\* directories readdir fails on.
RunConfigs ==
  {[exts |-> DefaultExtensions, bad |-> {}],
   [exts |-> {".js", ".md", ".txt"}, bad |-> {}],
   [exts |-> DefaultExtensions, bad |-> {"src"}]}

\* Rule documents: every combination of one choice per pattern section, the
\* document of Scenario A among them, then a document with no section
\* header at all, and no document.
GlobalChoices == {"", "node_modules/**\n", "src\n", "**/*.js\n"}
WhitelistChoices == {"", "src/**\n", "*.js\n", "**/x.js\nsrc/*\n"}
BlacklistChoices == {"", "*.min.js\n", "src/lib\n"}

RuleDocText(g, w, b) ==
  "# .flatten_ignore\nglobal:\n" \o g \o "whitelist:\n" \o w \o "blacklist:\n" \o b
    \o "settings:\nmaxTokenLimit: 50000\n"

ScenarioADoc == TextDoc(RuleDocText("node_modules/**\n", "", "*.min.js\n"))

RunDocs ==
  {TextDoc(RuleDocText(g, w, b)) :
     g \in GlobalChoices, w \in WhitelistChoices, b \in BlacklistChoices}
  \cup {TextDoc("node_modules\n%%% not a rule document\n"), TextDoc(""), NoDoc}

\* The .gitignore of the workspace: in each tree it names a source file the
\* rule documents leave alone.
GitignoreIn(t) ==
  [exists |-> TRUE,
   content |-> IF t = TreeA THEN "# build\nsrc/a.js\n" ELSE "# build\nmain.js\n"]

RunInit ==
  /\ variant \in Variants
  /\ \/ tree = TreeB /\ doc \in RunDocs /\ useGitIgnore = TRUE
     \/ tree = TreeA /\ doc \in {ScenarioADoc, NoDoc} /\ useGitIgnore \in BOOLEAN
  /\ gitignore = GitignoreIn(tree)
  /\ rootPath = "/w"
  /\ \E c \in RunConfigs : includeExtensions = c.exts /\ unreadable = c.bad
  /\ ignoreRules = EmptyRules
  /\ globalRegexes = <<>> /\ whitelistRegexes = <<>> /\ blacklistRegexes = <<>>
  /\ stack = <<>> /\ fileList = <<>>
  /\ rpc = "ensure"
  /\ lines = <<>> /\ lineIdx = 0 /\ section = "null" /\ globalArr = <<>>
  /\ whitelistArr = <<>> /\ blacklistArr = <<>> /\ settingsObj = <<>> /\ ppc = "idle"

\* What the steps of the command outside the parser leave alone.
notRunVars == <<globVars, scoreVars, flowVars, batchVars, treeVars, stageVars, lines, lineIdx, section, globalArr,
                whitelistArr, blacklistArr, settingsObj, ppc>>

\* await ensureFile(flattenIgnorePath, defaultIgnoreContent): the document
\* is there already.
EnsureFileExists ==
  /\ rpc = "ensure"
  /\ doc.exists
  /\ rpc' = "parse"
  /\ UNCHANGED <<doc, tree, ignoreRules, variant, includeExtensions, unreadable,
                 globalRegexes, whitelistRegexes, blacklistRegexes, stack, fileList>>
  /\ UNCHANGED notRunVars

\* ensureFile writes the default document of the pipeline.
EnsureFileCreates ==
  /\ rpc = "ensure"
  /\ ~doc.exists
  /\ doc' = TextDoc(IF variant = "current" THEN DefaultIgnoreContent
                    ELSE DefaultIgnoreContentEarlier)
  /\ rpc' = "parse"
  /\ UNCHANGED <<tree, ignoreRules, variant, includeExtensions, unreadable,
                 globalRegexes, whitelistRegexes, blacklistRegexes, stack, fileList>>
  /\ UNCHANGED notRunVars

\* ensureFile cannot write and throws: the current pipeline logs it and goes
\* on without a document (lines 1085-1091), the earlier one ends there.
EnsureFileFails ==
  /\ rpc = "ensure"
  /\ ~doc.exists
  /\ rpc' = IF variant = "current" THEN "parse" ELSE "failed"
  /\ UNCHANGED <<doc, tree, ignoreRules, variant, includeExtensions, unreadable,
                 globalRegexes, whitelistRegexes, blacklistRegexes, stack, fileList>>
  /\ UNCHANGED notRunVars

\* parseFlattenIgnore(flattenIgnorePath, rootPath) is called: the parser
\* (ReadDoc, ParseLineStep, ReturnRules) runs from here.
CallParse ==
  /\ rpc = "parse"
  /\ ppc' = "read"
  /\ rpc' = "parsing"
  /\ UNCHANGED <<doc, tree, lines, lineIdx, section, globalArr, whitelistArr,
                 blacklistArr, settingsObj, ignoreRules>>
  /\ UNCHANGED <<variant, includeExtensions, unreadable, globalRegexes,
                 whitelistRegexes, blacklistRegexes, stack, fileList>>
  /\ UNCHANGED <<globVars, scoreVars, flowVars, batchVars, treeVars, stageVars>>

\* ignoreRules = await parseFlattenIgnore(...): the parser has returned.
ParseReturned ==
  /\ rpc = "parsing"
  /\ ppc = "done"
  /\ rpc' = "compile"
  /\ UNCHANGED parseVars
  /\ UNCHANGED <<variant, includeExtensions, unreadable, globalRegexes,
                 whitelistRegexes, blacklistRegexes, stack, fileList>>
  /\ UNCHANGED <<globVars, scoreVars, flowVars, batchVars, treeVars, stageVars>>

\* The patterns are compiled once, then collect(rootPath) is called.
CompilePatterns ==
  /\ rpc = "compile"
  /\ globalRegexes' = patternsToRegex(ignoreRules.global)
  /\ whitelistRegexes' = patternsToRegex(ignoreRules.whitelist)
  /\ blacklistRegexes' = CompiledBlacklist(variant, ignoreRules)
  /\ fileList' = <<>>
  /\ stack' = CallCollect(<<>>, unreadable, "")
  /\ rpc' = "collect"
  /\ UNCHANGED <<doc, tree, ignoreRules, variant, includeExtensions, unreadable>>
  /\ UNCHANGED notRunVars

\* One iteration of the loop over the items of the innermost collect call.
VisitItem ==
  /\ rpc = "collect"
  /\ Len(stack) > 0
  /\ LET top == stack[Len(stack)]
         items == Items(tree, doc, top.dir)
     IN
     /\ top.idx <= Len(items)
     /\ LET item == items[top.idx]
            relative == JoinPath(top.dir, item.name)
            verdict == IF variant = "current"
                       THEN VisitCurrent(relative, item, includeExtensions,
                                         globalRegexes, whitelistRegexes, blacklistRegexes)
                       ELSE VisitEarlier(relative, item, includeExtensions,
                                         globalRegexes, whitelistRegexes, blacklistRegexes)
            advanced == [stack EXCEPT ![Len(stack)].idx = top.idx + 1]
        IN
        /\ stack' = IF verdict = "descend"
                    THEN CallCollect(advanced, unreadable, relative)
                    ELSE advanced
        /\ fileList' = IF verdict = "push" THEN Append(fileList, relative) ELSE fileList
  /\ UNCHANGED <<doc, tree, ignoreRules, variant, includeExtensions, unreadable,
                 globalRegexes, whitelistRegexes, blacklistRegexes, rpc>>
  /\ UNCHANGED notRunVars

\* The loop of the innermost collect call is over: the call returns.
ReturnFromCollect ==
  /\ rpc = "collect"
  /\ Len(stack) > 0
  /\ stack[Len(stack)].idx > Len(Items(tree, doc, stack[Len(stack)].dir))
  /\ stack' = SubSeq(stack, 1, Len(stack) - 1)
  /\ UNCHANGED <<doc, tree, ignoreRules, variant, includeExtensions, unreadable,
                 globalRegexes, whitelistRegexes, blacklistRegexes, fileList, rpc>>
  /\ UNCHANGED notRunVars

\* await collect(rootPath) has returned.
CollectDone ==
  /\ rpc = "collect"
  /\ Len(stack) = 0
  /\ rpc' = "collected"
  /\ UNCHANGED <<doc, tree, ignoreRules, variant, includeExtensions, unreadable,
                 globalRegexes, whitelistRegexes, blacklistRegexes, stack, fileList>>
  /\ UNCHANGED notRunVars

RunNext ==
  \/ EnsureFileExists \/ EnsureFileCreates \/ EnsureFileFails
  \/ CallParse \/ ReadDoc \/ ParseLineStep \/ ReturnRules \/ ParseReturned
  \/ CompilePatterns
  \/ VisitItem \/ ReturnFromCollect \/ CollectDone

SpecRunInit ==
  RunInit /\ GlobIdle /\ ScoreIdle /\ FlowUnstarted /\ BatchIdle /\ TreeIdle
    /\ EnsureIdle /\ ChunkIdle

SpecRun == SpecRunInit /\ [][RunNext]_vars

(***************************************************************************)
(* Claims about the collector.                                             *)
(***************************************************************************)
\* Some pattern of the list, compiled by toRegex, matches the path.
MatchesPattern(path, patterns) ==
  \E k \in 1..Len(patterns) : RegExpTest(toRegex(patterns[k]), path)

\* The files of a tree, by relative path.
TreeFiles(t) ==
  UNION {{JoinPath(d, t[d][i].name) : i \in {j \in 1..Len(t[d]) : ~t[d][j].dir}} :
           d \in DOMAIN t}

Pushed == {fileList[i] : i \in 1..Len(fileList)}

AtItem ==
  /\ rpc = "collect"
  /\ Len(stack) > 0
  /\ stack[Len(stack)].idx <= Len(Items(tree, doc, stack[Len(stack)].dir))

CurrentItem == Items(tree, doc, stack[Len(stack)].dir)[stack[Len(stack)].idx]

CurrentRelative == JoinPath(stack[Len(stack)].dir, CurrentItem.name)

\* C2: with a non-empty whitelist every file of the candidate list matches
\* a whitelist pattern; with an empty whitelist a file that no other check
\* excludes is added to the candidate list when the collector visits it.
C2_WhitelistGate ==
  /\ [](Len(ignoreRules.whitelist) > 0 =>
          \A i \in 1..Len(fileList) :
             MatchesPattern(fileList[i], ignoreRules.whitelist))
  /\ [][(/\ AtItem
         /\ Len(ignoreRules.whitelist) = 0
         /\ ~CurrentItem.dir
         /\ CurrentRelative # "flattened"
         /\ ~matchesAny(CurrentRelative, globalRegexes)
         /\ ~matchesAny(CurrentRelative, blacklistRegexes)
         /\ extname(CurrentItem.name) \in includeExtensions)
        => fileList' = Append(fileList, CurrentRelative)]_vars

\* A finished collection under a non-empty whitelist that left out a file
\* only the whitelist excludes, and kept another file.
C2_Witness ==
  /\ rpc = "collected"
  /\ Len(ignoreRules.whitelist) > 0
  /\ Len(fileList) > 0
  /\ \E f \in TreeFiles(tree) :
       /\ ~MatchesPattern(f, ignoreRules.global)
       /\ ~matchesAny(f, blacklistRegexes)
       /\ extname(f) \in includeExtensions
       /\ ~MatchesPattern(f, ignoreRules.whitelist)
       /\ f \notin Pushed

C4_ScenarioA ==
  (/\ rpc = "collected"
   /\ doc = ScenarioADoc
   /\ tree = TreeA
   /\ unreadable = {}
   /\ ".js" \in includeExtensions)
  => Pushed = {"src/a.js"}

\* The regular expressions of the built-in patterns, by source text.
DefaultLibrarySources ==
  {toRegex(DEFAULT_LIBRARY_PATTERNS[k]).source : k \in 1..Len(DEFAULT_LIBRARY_PATTERNS)}

\* C9: in the current pipeline the blacklist the collector uses holds the
\* regular expression of every pattern of DEFAULT_LIBRARY_PATTERNS, for
\* every rule document, a missing or unparsable one included.
C9_BuiltInPatternsAlwaysBlacklisted ==
  (variant = "current" /\ rpc \in {"collect", "collected"})
  => DefaultLibrarySources
       \subseteq {blacklistRegexes[j].source : j \in 1..Len(blacklistRegexes)}

\* The current pipeline finished a collection without any rule document:
\* the blacklist is the built-in list, which kept src/a.min.js out.
C9_Witness ==
  /\ variant = "current"
  /\ rpc = "collected"
  /\ ~doc.exists
  /\ Len(blacklistRegexes) = Len(DEFAULT_LIBRARY_PATTERNS)
  /\ "src/a.js" \in Pushed
  /\ "src/a.min.js" \notin Pushed

(***************************************************************************)
(* scoreFile(filePath, stats) (lines 172-200).  stats.size is in bytes;    *)
(* stats.age stands for now - stats.mtime, in milliseconds.                *)
(***************************************************************************)
Max(a, b) == IF a >= b THEN a ELSE b
Min(a, b) == IF a <= b THEN a ELSE b

mainFiles == {".ts", ".js", ".py", ".java", ".go", ".rs"}
configFiles == {".json", ".yml", ".yaml", ".toml"}

\* scoreFile with the three size tests applied one after the other.
scoreFileEverySizeBand(path, st) ==
  LET s1 == 50 + (IF st.size < 10 * 1024 THEN 20 ELSE 0)
               + (IF st.size < 50 * 1024 THEN 10 ELSE 0)
               - (IF st.size > 500 * 1024 THEN 20 ELSE 0)
      relativePath == ToLowerCase(path)
      s2 == IF Includes(relativePath, "src/") \/ Includes(relativePath, "lib/")
            THEN s1 + 15 ELSE s1
      s3 == IF Includes(relativePath, "test/") \/ Includes(relativePath, "spec/")
            THEN s2 - 10 ELSE s2
      s4 == IF Includes(relativePath, "example/") \/ Includes(relativePath, "demo/")
            THEN s3 - 5 ELSE s3
      ext == ToLowerCase(extname(path))
      s5 == IF ext \in mainFiles THEN s4 + 10 ELSE s4
      s6 == IF ext \in configFiles THEN s5 + 5 ELSE s5
      s7 == IF st.age < 7 * (1000 * 60 * 60 * 24) THEN s6 + 10 ELSE s6
  IN  Max(0, Min(100, s7))

\* async function scoreFile(filePath, stats).  sizeInKB = stats.size / 1024
\* is compared as stats.size against the threshold times 1024, and
\* modifiedDays as stats.age against 7 days in milliseconds.
scoreFile(path, st) ==
  LET s0 == 50
      s1 == IF st.size < 10 * 1024 THEN s0 + 20
            ELSE IF st.size < 50 * 1024 THEN s0 + 10
            ELSE IF st.size > 500 * 1024 THEN s0 - 20
            ELSE s0
      relativePath == ToLowerCase(path)
      s2 == IF Includes(relativePath, "src/") \/ Includes(relativePath, "lib/")
            THEN s1 + 15 ELSE s1
      s3 == IF Includes(relativePath, "test/") \/ Includes(relativePath, "spec/")
            THEN s2 - 10 ELSE s2
      s4 == IF Includes(relativePath, "example/") \/ Includes(relativePath, "demo/")
            THEN s3 - 5 ELSE s3
      ext == ToLowerCase(extname(path))
      s5 == IF ext \in mainFiles THEN s4 + 10 ELSE s4
      s6 == IF ext \in configFiles THEN s5 + 5 ELSE s5
      s7 == IF st.age < 7 * (1000 * 60 * 60 * 24) THEN s6 + 10 ELSE s6
  IN  Max(0, Min(100, s7))

\* Sizes on both sides of the 10KB, 50KB and 500KB thresholds; ages on both
\* sides of 7 days, and a modification time in the future.
ScoreSizes == {0, 10239, 10240, 51199, 51200, 512000, 512001, 5000000}
ScoreAges == {0 - 60000, 0, 604799999, 604800000, 2000000000}

ScorePaths ==
  {"src/a.js", "lib/b.ts", "SRC/Main.JS", "mysrc/a.rs", "srcs/a.go",
   "test/a.py", "src/test/demo/x.json", "spec/x.java", "example/x.yml",
   "demo/y.toml", "src/spec/example/z.yaml", "README.md", "docs/.json",
   "lib.d/test.d/a", "main.js", "test/example/notes.txt"}

ScoreInit ==
  /\ filePath \in ScorePaths
  /\ stats \in [size : ScoreSizes, age : ScoreAges]
  /\ score = 0
  /\ spc = "call"

\* score = await scoreFile(filePath, stats)
Score ==
  /\ spc = "call"
  /\ score' = scoreFile(filePath, stats)
  /\ spc' = "returned"
  /\ UNCHANGED <<filePath, stats>>
  /\ UNCHANGED <<globVars, parseVars, runVars, flowVars, batchVars, treeVars, stageVars>>

ScoreNext == Score

SpecScoreInit ==
  ScoreInit /\ GlobIdle /\ ParseIdle /\ RunIdle /\ FlowIdle /\ BatchIdle /\ TreeIdle
    /\ StageIdle

SpecScore == SpecScoreInit /\ [][ScoreNext]_vars

\* The adjustments as the scoring rule states them, in KB and days.
SizeAdj(size) ==
  CASE size < 10 * 1024                            -> 20
    [] size >= 10 * 1024 /\ size < 50 * 1024       -> 10
    [] size >= 50 * 1024 /\ size <= 500 * 1024     -> 0
    [] size > 500 * 1024                           -> 0 - 20

HasPart(path, parts) == \E q \in parts : Includes(ToLowerCase(path), q)

PathAdj(path) ==
  (IF HasPart(path, {"src/", "lib/"}) THEN 15 ELSE 0)
  - (IF HasPart(path, {"test/", "spec/"}) THEN 10 ELSE 0)
  - (IF HasPart(path, {"example/", "demo/"}) THEN 5 ELSE 0)

ExtAdj(path) ==
  (IF ToLowerCase(extname(path)) \in mainFiles THEN 10 ELSE 0)
  + (IF ToLowerCase(extname(path)) \in configFiles THEN 5 ELSE 0)

RecencyAdj(age) == IF age < 7 * 24 * 60 * 60 * 1000 THEN 10 ELSE 0

RawScore ==
  50 + SizeAdj(stats.size) + PathAdj(filePath) + ExtAdj(filePath) + RecencyAdj(stats.age)

\* C10: scoreFile returns 50 plus the size, path, extension and recency
\* adjustments, clamped to 0..100; exactly one size band applies.
C10_ScoreIsClampedSum ==
  spc = "returned" =>
    /\ score = (IF RawScore < 0 THEN 0 ELSE IF RawScore > 100 THEN 100 ELSE RawScore)
    /\ score \in 0..100

\* scoreFile returned for a file whose adjustments add up to more than 100.
C10_Witness ==
  /\ spc = "returned"
  /\ RawScore > 100
  /\ score = 100

(***************************************************************************)
(* Text that holds file content.  The packers never look inside a file's   *)
(* content, so a text is a sequence of segments: a literal string, or the  *)
(* content of the file at a path (its length is the file's size).          *)
(***************************************************************************)
Lit(str) == [kind |-> "lit", text |-> str, len |-> Len(str)]

ContentOf(rel, n) == [kind |-> "content", text |-> rel, len |-> n]

EmptyText == <<>>

\* text.length
RECURSIVE TextLen(_)
TextLen(t) == IF t = <<>> THEN 0 ELSE Head(t).len + TextLen(Tail(t))

\* `\n\n=== FILE: ${rel} ===\n${content}`
fileEntry(rel, n) ==
  <<Lit("\n\n=== FILE: " \o rel \o " ===\n"), ContentOf(rel, n)>>

\* String(n) for the small counts the messages hold.
RECURSIVE NumberToString(_)
NumberToString(n) ==
  IF n < 10 THEN CharAt(Digits, n + 1)
  ELSE NumberToString(n \div 10) \o CharAt(Digits, (n % 10) + 1)

(***************************************************************************)
(* function createChunksEfficiently(files, maxChunkSize) (lines 665-696).  *)
(* files: <<[rel, content], ...>>, content being the length of the text    *)
(* read; the result is the array of one chunk it returns.                  *)
(***************************************************************************)
HARD_LIMIT == 512 * 1024

\* The loop leaving at the first file that does not fit, as `break` in the
\* place of `continue` would: every later file is skipped with it.
RECURSIVE ChunkLoopBreaks(_, _, _)
ChunkLoopBreaks(files, i, acc) ==
  IF i > Len(files) THEN acc
  ELSE
    LET entry == fileEntry(files[i].rel, files[i].content) IN
    IF TextLen(acc.totalContent) + TextLen(entry) > 512 * 1024
    THEN [acc EXCEPT !.skippedFiles =
                       @ \o [k \in 1..(Len(files) - i + 1) |-> files[i + k - 1].rel]]
    ELSE ChunkLoopBreaks(files, i + 1,
                         [acc EXCEPT !.totalContent = @ \o entry,
                                     !.includedFiles = Append(@, files[i].rel)])

\* The loop of lines 673-684 from file i on.
RECURSIVE ChunkLoop(_, _, _)
ChunkLoop(files, i, acc) ==
  IF i > Len(files) THEN acc
  ELSE
    LET entry == fileEntry(files[i].rel, files[i].content) IN
    IF TextLen(acc.totalContent) + TextLen(entry) > HARD_LIMIT
    THEN ChunkLoop(files, i + 1,
                   [acc EXCEPT !.skippedFiles = Append(@, files[i].rel)])
    ELSE ChunkLoop(files, i + 1,
                   [acc EXCEPT !.totalContent = @ \o entry,
                               !.includedFiles = Append(@, files[i].rel)])

createChunksEfficiently(files, chunkLimit) ==
  LET acc == ChunkLoop(files, 1, [totalContent |-> EmptyText,
                                  includedFiles |-> <<>>, skippedFiles |-> <<>>])
      warningMessage ==
        <<Lit("\n\n=== WARNING: CONTENT TRUNCATED ===\nThe following "
              \o NumberToString(Len(acc.skippedFiles))
              \o " files were skipped to stay within LLM token limits:\n"
              \o Join(acc.skippedFiles, "\n") \o "\n")>>
      totalContent == IF Len(acc.skippedFiles) > 0
                      THEN warningMessage \o acc.totalContent
                      ELSE acc.totalContent
  IN  <<[content |-> totalContent, files |-> acc.includedFiles]>>

(***************************************************************************)
(* async function estimateOutputFiles(files, chunkLimit) (lines          *)
(* 258-286).  files: <<[size], ...>>.                                      *)
(***************************************************************************)
RECURSIVE EstimateLoop(_, _, _)
EstimateLoop(files, i, acc) ==
  IF i > Len(files) THEN acc
  ELSE
    LET size == files[i].size IN
    EstimateLoop(files, i + 1,
      IF acc.currentChunkSize + size > acc.chunkLimit
      THEN [acc EXCEPT !.totalSize = @ + size, !.numChunks = @ + 1,
                       !.currentChunkSize = size]
      ELSE [acc EXCEPT !.totalSize = @ + size, !.currentChunkSize = @ + size])

estimateOutputFiles(files, chunkLimit) ==
  LET acc == EstimateLoop(files, 1, [currentChunkSize |-> 0, numChunks |-> 1,
                                     totalSize |-> 0, chunkLimit |-> chunkLimit])
  IN  [estimatedFiles |-> acc.numChunks, totalSize |-> acc.totalSize]

(***************************************************************************)
(* function buildDirectoryTree(filePaths) (lines 137-164).                 *)
(*                                                                         *)
(* The nested object `tree` is the set of its nodes, each the sequence of  *)
(* keys that leads to it from the root.  The three box-drawing prefixes of *)
(* treeToString are written in ASCII: TEE for U+251C U+2500 SPACE, ELBOW   *)
(* for U+2514 U+2500 SPACE, BAR for U+2502 SPACE SPACE.                    *)
(***************************************************************************)
TEE == "|- "
ELBOW == "+- "
BAR == "|  "

\* What `{}` inherits from Object.prototype: node[part] is truthy for these
\* keys although the object has no such key of its own (`__proto__`, which
\* leads to Object.prototype itself, is left out of the names modelled).
ObjectPrototypeNames ==
  {"constructor", "toString", "toLocaleString", "valueOf", "hasOwnProperty",
   "isPrototypeOf", "propertyIsEnumerable"}

\* parts.forEach(part => { if (!node[part]) node[part] = {}; node = node[part] })
\* from part i on, node being the tree node `at`.  Once node[part] is an
\* inherited function, node leaves the tree and the rest of the path adds
\* nothing to it.
RECURSIVE InsertParts(_, _, _, _)
InsertParts(nodes, parts, i, at) ==
  IF i > Len(parts) THEN nodes
  ELSE
    LET child == Append(at, parts[i]) IN
    IF child \in nodes THEN InsertParts(nodes, parts, i + 1, child)
    ELSE IF parts[i] \in ObjectPrototypeNames THEN nodes
    ELSE InsertParts(nodes \cup {child}, parts, i + 1, child)

\* filePaths.forEach(relPath => ...) from path i on.
RECURSIVE InsertPaths(_, _, _)
InsertPaths(nodes, filePaths, i) ==
  IF i > Len(filePaths) THEN nodes
  ELSE InsertPaths(InsertParts(nodes, Split(filePaths[i], "/"), 1, <<>>),
                   filePaths, i + 1)

\* String.prototype.localeCompare in the root collation, for names made of
\* ASCII letters, digits and `_`, `-`, `.`: the names are compared letter by
\* letter without regard to case first, punctuation before digits before
\* letters, a name before its extensions; names equal up to case are told
\* apart by the first letter whose case differs, lower case first.
PrimaryOrder == "_-.0123456789abcdefghijklmnopqrstuvwxyz"

RECURSIVE IndexOfChar(_, _, _)
IndexOfChar(str, c, i) ==
  IF i > Len(str) THEN 0
  ELSE IF CharAt(str, i) = c THEN i
  ELSE IndexOfChar(str, c, i + 1)

PrimaryRanks ==
  [c \in {CharAt(PrimaryOrder, i) : i \in 1..Len(PrimaryOrder)}
         \cup {CharAt(UpperLetters, i) : i \in 1..Len(UpperLetters)} |->
     IndexOfChar(PrimaryOrder, LowerChar(c), 1)]

PrimaryRank(c) == IF c \in DOMAIN PrimaryRanks THEN PrimaryRanks[c] ELSE 0

RECURSIVE ComparePrimary(_, _, _)
ComparePrimary(a, b, i) ==
  IF i > Len(a) /\ i > Len(b) THEN 0
  ELSE IF i > Len(a) THEN 0 - 1
  ELSE IF i > Len(b) THEN 1
  ELSE IF PrimaryRank(CharAt(a, i)) < PrimaryRank(CharAt(b, i)) THEN 0 - 1
  ELSE IF PrimaryRank(CharAt(a, i)) > PrimaryRank(CharAt(b, i)) THEN 1
  ELSE ComparePrimary(a, b, i + 1)

RECURSIVE CompareCase(_, _, _)
CompareCase(a, b, i) ==
  IF i > Len(a) THEN 0
  ELSE IF CharAt(a, i) = CharAt(b, i) THEN CompareCase(a, b, i + 1)
  ELSE IF CharAt(a, i) = LowerChar(CharAt(a, i)) THEN 0 - 1
  ELSE 1

localeCompare(a, b) ==
  IF ComparePrimary(a, b, 1) # 0 THEN ComparePrimary(a, b, 1)
  ELSE CompareCase(a, b, 1)

\* Object.entries(node), sorted by (a, b) => a[0].localeCompare(b[0]): the
\* names of the children of the node, in that order.
RECURSIVE SortedNames(_)
SortedNames(names) ==
  IF names = {} THEN <<>>
  ELSE LET first == CHOOSE n \in names :
                      \A m \in names : localeCompare(n, m) <= 0
       IN  <<first>> \o SortedNames(names \ {first})

ChildNames(nodes, at) ==
  {n[Len(n)] : n \in {m \in nodes : Len(m) = Len(at) + 1
                                    /\ SubSeq(m, 1, Len(at)) = at}}

\* function treeToString(node, indent): EntriesToString is its forEach from
\* index on, entries being the sorted entries of the node `at`.
RECURSIVE EntriesToString(_, _, _, _, _)
EntriesToString(nodes, at, indent, entries, index) ==
  IF index > Len(entries) THEN ""
  ELSE
    LET isLast    == index = Len(entries)
        name      == entries[index]
        newIndent == indent \o (IF isLast THEN "   " ELSE BAR)
        child     == Append(at, name)
    IN  indent \o (IF isLast THEN ELBOW ELSE TEE) \o name \o "\n"
        \o EntriesToString(nodes, child, newIndent,
                           SortedNames(ChildNames(nodes, child)), 1)
        \o EntriesToString(nodes, at, indent, entries, index + 1)

treeToString(nodes, at, indent) ==
  EntriesToString(nodes, at, indent, SortedNames(ChildNames(nodes, at)), 1)

buildDirectoryTree(filePaths) ==
  treeToString(InsertPaths({}, filePaths, 1), <<>>, "")

(***************************************************************************)
(* The command flatten-repo.flattenProjectToTxt from the collected file    *)
(* list on: scoring, reading, packing, writing, .gitignore (lines          *)
(* 1202-1333 of the current copy, lines 1648-1707 of the earlier one).     *)
(*                                                                         *)
(* Two signs the messages start with are written in ASCII: WARN for        *)
(* U+26A0 U+FE0F and DONE for U+2705.  Progress reports are not modelled.  *)
(***************************************************************************)
WARN == "(!)"
DONE == "[ok]"

\* new Date(), formatted; one run writes under one timestamp.
timestamp == "12:00:00-01-01-26"

\* What fs.stat and fs.readFile find for the files collect pushed: size in
\* bytes, content as the length of the text read (less than size where the
\* text has characters of several bytes), age as now - mtime.  A file may be
\* gone by the time it is read, or not be readable.
DiskFile(size, content, age, statOk, readOk) ==
  [size |-> size, content |-> content, age |-> age, statOk |-> statOk,
   readOk |-> readOk]

Disk ==
  [f \in {"src/a.js", "test/x.js", "src/b.ts", "lib/big.py", "lib/big2.py",
          "web/gone.html", "src/locked.js"} |->
     CASE f = "src/a.js"      -> DiskFile(100, 100, 0, TRUE, TRUE)
       [] f = "test/x.js"     -> DiskFile(24, 20, 2000000000, TRUE, TRUE)
       [] f = "src/b.ts"      -> DiskFile(100000, 100000, 2000000000, TRUE, TRUE)
       [] f = "lib/big.py"    -> DiskFile(300000, 300000, 2000000000, TRUE, TRUE)
       [] f = "lib/big2.py"   -> DiskFile(300000, 300000, 0, TRUE, TRUE)
       [] f = "web/gone.html" -> DiskFile(0, 0, 0, FALSE, FALSE)
       [] f = "src/locked.js" -> DiskFile(50, 50, 0, TRUE, FALSE)]

\* const maxChunkSize = (settings.maxTokenLimit || 50000) * 4 (line 1148);
\* settings.maxTokenLimit * 4 after { ...defaultSettings, ...settings }
\* (lines 1598-1605).
MaxChunkSizeOf(v, settings) ==
  IF "maxTokenLimit" \in DOMAIN settings
     /\ (v = "earlier" \/ settings["maxTokenLimit"] # 0)
  THEN settings["maxTokenLimit"] * 4
  ELSE 50000 * 4

\* const maxFileSize = (settings.maxTokensPerFile || 25000) * 4 (line 1149);
\* settings.maxTokensPerFile * 4 (line 1606).
MaxFileSizeOf(v, settings) ==
  IF "maxTokensPerFile" \in DOMAIN settings
     /\ (v = "earlier" \/ settings["maxTokensPerFile"] # 0)
  THEN settings["maxTokensPerFile"] * 4
  ELSE 25000 * 4

Logged(l, via, text) == Append(l, [via |-> via, text |-> text])

\* getDetailedErrorMessage(new Error('Operation cancelled by user')), the
\* stack left out.
CancelledMessage == "Error: Operation cancelled by user"

\* catch (error) of lines 1329-1333.
Caught(l, message) ==
  Logged(Logged(l, "showErrorMessage", "Failed during operation: " \o message),
         "console.error", message)

\* list.length === 0 that never holds.
lengthIsZeroNever(list) == FALSE

\* fileList.length === 0, scoredFiles.length === 0, results.length === 0
\* (lines 1202, 1224, 1262).
lengthIsZero(list) == Len(list) = 0

\* ProgressTracker.increment(message) never throws.
incrementIgnoresToken(tok) == FALSE

\* ProgressTracker.increment(message) throws (lines 715-724).
incrementThrows(tok) == tok

\* scoredFiles.sort((a, b) => b.score - a.score): Array.prototype.sort is
\* stable.
RECURSIVE InsertByScore(_, _)
InsertByScore(sorted, x) ==
  IF sorted = <<>> THEN <<x>>
  ELSE IF Head(sorted).score >= x.score
       THEN <<Head(sorted)>> \o InsertByScore(Tail(sorted), x)
       ELSE <<x>> \o sorted

RECURSIVE SortByScore(_, _)
SortByScore(list, n) ==
  IF n = 0 THEN <<>> ELSE InsertByScore(SortByScore(list, n - 1), list[n])

\* Everything the steps from the file list on leave alone.
notFlowVars == <<globVars, scoreVars, treeVars, stageVars, doc, tree, lines, lineIdx,
                 section, globalArr, whitelistArr, blacklistArr, settingsObj,
                 ignoreRules, ppc, variant, includeExtensions, unreadable,
                 globalRegexes, whitelistRegexes, blacklistRegexes, stack,
                 fileList, maxChunkSize, maxFileSize, gitignoreWrites>>

\* The user presses Cancel on the notification (cancellable: true only in
\* the current copy) while the run awaits the file system.
RequestCancel ==
  /\ variant = "current"
  /\ ~token
  /\ \/ rpc = "score" /\ fidx > 1
     \/ rpc = "read" /\ bpc = "await"
     \/ rpc \in {"write", "gitignore"}
  /\ token' = TRUE
  /\ cancelRequestedAt' = rpc
  /\ UNCHANGED <<scoredFiles, fidx, results, chunks, currentChunk, outputFiles,
                 gitignore, log, rpc>>
  /\ UNCHANGED <<notFlowVars, batchVars>>

\* Lines 1202-1209: the empty list returns, tracker.increment('Processing
\* files...') throws or the scoring loop starts.
AfterCollect ==
  /\ rpc = "collected" /\ variant = "current"
  /\ IF lengthIsZero(fileList)
     THEN /\ log' = Logged(log, "showWarningMessage",
                 "No matching files found. Check your ignore patterns and file extensions.")
          /\ rpc' = "returned"
          /\ UNCHANGED fidx
     ELSE IF incrementThrows(token)
     THEN /\ log' = Caught(log, CancelledMessage)
          /\ rpc' = "returned"
          /\ UNCHANGED fidx
     ELSE /\ rpc' = "score"
          /\ fidx' = 1
          /\ UNCHANGED log
  /\ UNCHANGED <<token, cancelRequestedAt, scoredFiles, results, chunks,
                 currentChunk, outputFiles, gitignore>>
  /\ UNCHANGED <<notFlowVars, batchVars>>

\* One iteration of `for (const file of fileList)` (lines 1210-1222).
ScoreStep ==
  /\ rpc = "score" /\ fidx <= Len(fileList)
  /\ LET file == fileList[fidx] IN
     IF token
     THEN /\ log' = Caught(log, CancelledMessage)
          /\ rpc' = "returned"
          /\ UNCHANGED <<scoredFiles, fidx>>
     ELSE /\ IF Disk[file].statOk
             THEN /\ scoredFiles' =
                       Append(scoredFiles,
                              [file |-> file,
                               score |-> scoreFile(JoinPath(rootPath, file),
                                                   [size |-> Disk[file].size,
                                                    age |-> Disk[file].age]),
                               size |-> Disk[file].size])
                  /\ UNCHANGED log
             ELSE /\ log' = Logged(log, "console.error",
                                   "Failed to process file " \o JoinPath(rootPath, file))
                  /\ UNCHANGED scoredFiles
          /\ fidx' = fidx + 1
          /\ UNCHANGED rpc
  /\ UNCHANGED <<token, cancelRequestedAt, results, chunks, currentChunk,
                 outputFiles, gitignore>>
  /\ UNCHANGED <<notFlowVars, batchVars>>

\* Lines 1224-1240: nothing scored returns; else the sort,
\* tracker.increment('Processing files...') and the call of
\* processFilesInParallel(sortedFiles, rootPath, maxFileSize).
ScoreDone ==
  /\ rpc = "score" /\ fidx > Len(fileList)
  /\ IF lengthIsZero(scoredFiles)
     THEN /\ log' = Logged(log, "showWarningMessage",
                 "No files could be processed. Check file permissions and try again.")
          /\ rpc' = "returned"
          /\ UNCHANGED <<scoredFiles, batchVars>>
     ELSE /\ scoredFiles' = SortByScore(scoredFiles, Len(scoredFiles))
          /\ IF incrementThrows(token)
             THEN /\ log' = Caught(log, CancelledMessage)
                  /\ rpc' = "returned"
                  /\ UNCHANGED batchVars
             ELSE /\ rpc' = "read"
                  /\ bFiles' = [i \in 1..Len(scoredFiles) |-> scoredFiles'[i].file]
                  /\ bMax' = 4
                  /\ bStart' = 1
                  /\ bSlots' = <<>>
                  /\ bResults' = <<>>
                  /\ bErrors' = <<>>
                  /\ bpc' = "batch"
                  /\ UNCHANGED log
  /\ UNCHANGED <<token, cancelRequestedAt, fidx, results, chunks, currentChunk,
                 outputFiles, gitignore>>
  /\ UNCHANGED notFlowVars

(***************************************************************************)
(* async function processFilesInParallel(files, rootPath, maxFileSize,     *)
(* maxConcurrent = 4) (lines 210-250).  The async functions of one batch   *)
(* run interleaved: each awaits fs.stat, then fs.readFile, and any of them *)
(* may be the next to go on.                                               *)
(***************************************************************************)
NoResult == [file |-> "", content |-> 0, rel |-> "", size |-> 0]

Slot(state, value) == [state |-> state, value |-> value]

\* Everything processFilesInParallel leaves alone.
notBatchVars == <<notFlowVars, token, cancelRequestedAt, scoredFiles, fidx,
                  results, chunks, currentChunk, outputFiles, gitignore, rpc>>

\* batchResults.filter(r => r !== null) dropping the whole batch when one of
\* its promises gave null.
FulfilledAllOrNothing(slots) ==
  IF \E k \in 1..Len(slots) : slots[k].state = "null" THEN <<>>
  ELSE [k \in 1..Len(slots) |-> slots[k].value]

\* batchResults.filter(r => r !== null) (line 241), batchResults being in
\* the order of the batch whatever the order the promises settled in.
RECURSIVE Fulfilled(_)
Fulfilled(slots) ==
  IF slots = <<>> THEN <<>>
  ELSE IF Head(slots).state = "null" THEN Fulfilled(Tail(slots))
  ELSE <<Head(slots).value>> \o Fulfilled(Tail(slots))

\* batch.map(async file => ...): every async function of the next batch
\* runs up to its await fs.stat(file) (lines 216-221).
BatchStart ==
  /\ bpc = "batch" /\ bStart <= Len(bFiles)
  /\ bSlots' = [k \in 1..Min(bMax, Len(bFiles) - bStart + 1) |-> Slot("stat", NoResult)]
  /\ bpc' = "await"
  /\ UNCHANGED <<bFiles, bMax, bStart, bResults, bErrors, log>>
  /\ UNCHANGED notBatchVars

\* catch (err) of lines 232-237.
BatchError(file) == "Error processing " \o JoinPath(rootPath, file)

\* await fs.stat(file) of one file of the batch settles (lines 222-227).
StatSettles ==
  /\ bpc = "await"
  /\ \E k \in 1..Len(bSlots) :
       /\ bSlots[k].state = "stat"
       /\ LET file == bFiles[bStart + k - 1] IN
          IF ~Disk[file].statOk
          THEN /\ bErrors' = Append(bErrors, BatchError(file))
               /\ log' = Logged(log, "console.error", BatchError(file))
               /\ bSlots' = [bSlots EXCEPT ![k] = Slot("null", NoResult)]
          ELSE IF Disk[file].size > maxFileSize
          THEN /\ log' = Logged(log, "console.warn",
                                WARN \o " Skipping " \o file \o " (exceeds size limit of "
                                \o NumberToString(maxFileSize) \o " bytes)")
               /\ bSlots' = [bSlots EXCEPT ![k] = Slot("null", NoResult)]
               /\ UNCHANGED bErrors
          ELSE /\ bSlots' = [bSlots EXCEPT ![k] = Slot("read", NoResult)]
               /\ UNCHANGED <<bErrors, log>>
  /\ UNCHANGED <<bFiles, bMax, bStart, bResults, bpc>>
  /\ UNCHANGED notBatchVars

\* await fs.readFile(file, 'utf-8') of one file of the batch settles (lines
\* 229-231).
ReadSettles ==
  /\ bpc = "await"
  /\ \E k \in 1..Len(bSlots) :
       /\ bSlots[k].state = "read"
       /\ LET file == bFiles[bStart + k - 1] IN
          IF ~Disk[file].readOk
          THEN /\ bErrors' = Append(bErrors, BatchError(file))
               /\ log' = Logged(log, "console.error", BatchError(file))
               /\ bSlots' = [bSlots EXCEPT ![k] = Slot("null", NoResult)]
          ELSE /\ bSlots' = [bSlots EXCEPT ![k] =
                               Slot("fulfilled",
                                    [file |-> file, content |-> Disk[file].content,
                                     rel |-> file, size |-> Disk[file].size])]
               /\ UNCHANGED <<bErrors, log>>
  /\ UNCHANGED <<bFiles, bMax, bStart, bResults, bpc>>
  /\ UNCHANGED notBatchVars

\* The join going on as soon as one promise of the batch has settled, as
\* Promise.race would.
BatchJoinFirstSettled ==
  /\ bpc = "await"
  /\ \E k \in 1..Len(bSlots) : bSlots[k].state \in {"null", "fulfilled"}
  /\ bResults' = bResults \o Fulfilled(bSlots)
  /\ bStart' = bStart + bMax
  /\ bSlots' = <<>>
  /\ bpc' = "batch"
  /\ UNCHANGED <<bFiles, bMax, bErrors, log>>
  /\ UNCHANGED notBatchVars

\* await Promise.all(batchPromises) settles and the results are pushed
\* (lines 240-241).
BatchJoin ==
  /\ bpc = "await"
  /\ \A k \in 1..Len(bSlots) : bSlots[k].state \in {"null", "fulfilled"}
  /\ bResults' = bResults \o Fulfilled(bSlots)
  /\ bStart' = bStart + bMax
  /\ bSlots' = <<>>
  /\ bpc' = "batch"
  /\ UNCHANGED <<bFiles, bMax, bErrors, log>>
  /\ UNCHANGED notBatchVars

\* Lines 244-249.
BatchReturn ==
  /\ bpc = "batch" /\ bStart > Len(bFiles)
  /\ log' = IF Len(bErrors) > 0
            THEN Logged(log, "showWarningMessage",
                        WARN \o " Some files could not be processed. Check the output for details.")
            ELSE log
  /\ bpc' = "returned"
  /\ UNCHANGED <<bFiles, bMax, bStart, bSlots, bResults, bErrors>>
  /\ UNCHANGED notBatchVars

(***************************************************************************)
(* The current copy from the results on (lines 1242-1333).                 *)
(* processFilesInParallel and createChunksEfficiently catch or cause no    *)
(* exception, so the two fallbacks (lines 1243-1260, 1269-1278) never run. *)
(***************************************************************************)
TreeHeader(files) ==
  <<Lit("=== Directory Tree ===\n" \o buildDirectoryTree(files) \o "\n\n")>>

\* Lines 1262-1286: no result returns; else the chunk is made and
\* tracker.increment('Writing output file...') begins the write step.
ReadDone ==
  /\ rpc = "read" /\ bpc = "returned"
  /\ results' = bResults
  /\ IF lengthIsZero(bResults)
     THEN /\ log' = Logged(log, "showErrorMessage",
                 "Failed to process any files. Please check the console for errors.")
          /\ rpc' = "returned"
          /\ UNCHANGED chunks
     ELSE /\ chunks' = createChunksEfficiently(bResults, maxChunkSize)
          /\ IF incrementThrows(token)
             THEN /\ log' = Caught(log, CancelledMessage)
                  /\ rpc' = "returned"
             ELSE /\ rpc' = "write"
                  /\ UNCHANGED log
  /\ UNCHANGED <<token, cancelRequestedAt, scoredFiles, fidx, currentChunk,
                 outputFiles, gitignore>>
  /\ UNCHANGED <<notFlowVars, batchVars>>

\* Lines 1290-1304: the artifact is written and announced.
WriteOutput ==
  /\ rpc = "write" /\ variant = "current"
  /\ outputFiles' = Append(outputFiles,
                           [name |-> timestamp \o ".txt",
                            text |-> TreeHeader(chunks[1].files) \o chunks[1].content])
  /\ log' = Logged(log, "showInformationMessage",
                   DONE \o " Flattened " \o NumberToString(Len(chunks[1].files))
                   \o " files into a single file in /flattened directory.")
  /\ rpc' = "gitignore"
  /\ UNCHANGED <<token, cancelRequestedAt, scoredFiles, fidx, results, chunks,
                 currentChunk, gitignore>>
  /\ UNCHANGED <<notFlowVars, batchVars>>

\* fs.writeFile fails: catch (writeErr) of lines 1305-1309 in the current
\* copy, catch (err) of lines 1704-1707 in the earlier one.
WriteFails ==
  /\ rpc = "write"
  /\ variant = "earlier" => fidx <= Len(chunks)
  /\ log' = IF variant = "current"
            THEN Logged(Logged(log, "console.error", "Failed to write output file"),
                        "showErrorMessage",
                        "Failed to write output file. Please check the console for errors.")
            ELSE Logged(Logged(log, "console.error", "Error during flattening"),
                        "showErrorMessage",
                        "An error occurred during the flattening process.")
  /\ rpc' = "returned"
  /\ UNCHANGED <<token, cancelRequestedAt, scoredFiles, fidx, results, chunks,
                 currentChunk, outputFiles, gitignore>>
  /\ UNCHANGED <<notFlowVars, batchVars>>

\* Lines 1311-1328 and 1695-1703: /flattened is appended to .gitignore
\* unless the file has it.
UpdateGitignore ==
  /\ rpc = "gitignore"
  /\ LET content == IF gitignore.exists THEN gitignore.content ELSE "" IN
     IF ~Includes(content, "/flattened")
     THEN /\ gitignore' =
               [exists |-> TRUE,
                content |-> content
                            \o (IF EndsWith(content, "\n") THEN "" ELSE "\n")
                            \o "/flattened\n"]
          /\ gitignoreWrites' = gitignoreWrites + 1
     ELSE UNCHANGED <<gitignore, gitignoreWrites>>
  /\ rpc' = "returned"
  /\ UNCHANGED <<token, cancelRequestedAt, scoredFiles, fidx, results, chunks,
                 currentChunk, outputFiles, log>>
  /\ UNCHANGED <<globVars, scoreVars, treeVars, stageVars, batchVars, parseVars, variant,
                 includeExtensions, unreadable, globalRegexes, whitelistRegexes,
                 blacklistRegexes, stack, fileList, maxChunkSize, maxFileSize>>

(***************************************************************************)
(* The earlier copy from the file list on (lines 1648-1707).               *)
(***************************************************************************)
\* The loop body of lines 1655-1676 that drops the chunk it closes.
PackFileDropsClosedChunk(st, rel, maxFile, maxChunk) ==
  IF ~Disk[rel].readOk
  THEN [st EXCEPT !.log = Logged(@, "console.error",
                                 "Error reading " \o JoinPath(rootPath, rel))]
  ELSE
    LET entry == fileEntry(rel, Disk[rel].content) IN
    IF TextLen(entry) > maxFile
    THEN [st EXCEPT !.log = Logged(@, "console.warn",
                                   WARN \o " Skipping " \o rel \o " (too large)")]
    ELSE
      LET closes == TextLen(st.currentChunk.content) + TextLen(entry) > maxChunk
          open   == IF closes THEN NoChunk ELSE st.currentChunk
      IN  [st EXCEPT !.currentChunk = [content |-> open.content \o entry,
                                       files |-> Append(open.files, rel)]]

\* The loop body of lines 1655-1676 for the file rel; st holds chunks,
\* currentChunk and the log.
PackFile(st, rel, maxFile, maxChunk) ==
  IF ~Disk[rel].readOk
  THEN [st EXCEPT !.log = Logged(@, "console.error",
                                 "Error reading " \o JoinPath(rootPath, rel))]
  ELSE
    LET entry == fileEntry(rel, Disk[rel].content) IN
    IF TextLen(entry) > maxFile
    THEN [st EXCEPT !.log = Logged(@, "console.warn",
                                   WARN \o " Skipping " \o rel \o " (too large)")]
    ELSE
      LET closes == TextLen(st.currentChunk.content) + TextLen(entry) > maxChunk
          open   == IF closes THEN NoChunk ELSE st.currentChunk
      IN  [st EXCEPT !.chunks = IF closes THEN Append(@, st.currentChunk) ELSE @,
                     !.currentChunk = [content |-> open.content \o entry,
                                       files |-> Append(open.files, rel)]]

\* Lines 1648-1653: the loop starts with no chunk and an empty current one.
PackStart ==
  /\ rpc = "collected" /\ variant = "earlier"
  /\ rpc' = "pack"
  /\ fidx' = 1
  /\ chunks' = <<>>
  /\ currentChunk' = NoChunk
  /\ UNCHANGED <<token, cancelRequestedAt, scoredFiles, results, outputFiles,
                 gitignore, log>>
  /\ UNCHANGED <<notFlowVars, batchVars>>

\* One iteration of `for (const file of fileList)` (lines 1655-1680).
PackStep ==
  /\ rpc = "pack" /\ fidx <= Len(fileList)
  /\ LET st == PackFile([chunks |-> chunks, currentChunk |-> currentChunk,
                         log |-> log],
                        fileList[fidx], maxFileSize, maxChunkSize)
     IN  /\ chunks' = st.chunks
         /\ currentChunk' = st.currentChunk
         /\ log' = st.log
  /\ fidx' = fidx + 1
  /\ UNCHANGED <<token, cancelRequestedAt, scoredFiles, results, outputFiles,
                 gitignore, rpc>>
  /\ UNCHANGED <<notFlowVars, batchVars>>

\* Line 1681: if (currentChunk.content) chunks.push(currentChunk); the
\* writing loop starts at chunk 1.
PackDone ==
  /\ rpc = "pack" /\ fidx > Len(fileList)
  /\ chunks' = IF TextLen(currentChunk.content) > 0
               THEN Append(chunks, currentChunk) ELSE chunks
  /\ rpc' = "write"
  /\ fidx' = 1
  /\ UNCHANGED <<token, cancelRequestedAt, scoredFiles, results, currentChunk,
                 outputFiles, gitignore, log>>
  /\ UNCHANGED <<notFlowVars, batchVars>>

\* One iteration of the loop of lines 1684-1689, fidx being i + 1.
WriteChunk ==
  /\ rpc = "write" /\ variant = "earlier" /\ fidx <= Len(chunks)
  /\ outputFiles' = Append(outputFiles,
                           [name |-> timestamp \o "_" \o NumberToString(fidx) \o ".txt",
                            text |-> TreeHeader(chunks[fidx].files)
                                     \o chunks[fidx].content])
  /\ fidx' = fidx + 1
  /\ UNCHANGED <<token, cancelRequestedAt, scoredFiles, results, chunks,
                 currentChunk, gitignore, log, rpc>>
  /\ UNCHANGED <<notFlowVars, batchVars>>

\* Line 1691: every chunk is written.
WriteDone ==
  /\ rpc = "write" /\ variant = "earlier" /\ fidx > Len(chunks)
  /\ log' = Logged(log, "showInformationMessage",
                   DONE \o " Flattened " \o NumberToString(Len(fileList))
                   \o " files into " \o NumberToString(Len(chunks)) \o " file(s).")
  /\ rpc' = "gitignore"
  /\ UNCHANGED <<token, cancelRequestedAt, scoredFiles, fidx, results, chunks,
                 currentChunk, outputFiles, gitignore>>
  /\ UNCHANGED <<notFlowVars, batchVars>>

(***************************************************************************)
(* The runs from the file list on.                                         *)
(***************************************************************************)
MaxFlowFiles == 3

\* path.dirname(p) of a relative path, "" for a file of the root.
dirname(p) == Slice(p, 1, Max(0, LastIndexOfChar(p, "/", Len(p)) - 1))

\* collect pushes the files of one directory before it goes on with the
\* directory's siblings: in fileList the files of a directory are together.
DirectoriesTogether(list) ==
  \A i, j, k \in 1..Len(list) :
    (i < j /\ j < k /\ dirname(list[i]) = dirname(list[k]))
      => dirname(list[j]) = dirname(list[i])

FlowLists ==
  {l \in UNION {[1..n -> DOMAIN Disk] : n \in 0..MaxFlowFiles} :
     /\ \A i, j \in 1..Len(l) : i # j => l[i] # l[j]
     /\ DirectoriesTogether(l)}

\* flattened/.flatten_ignore documents that set the limits, and the settings
\* parseFlattenIgnore returns for them.
FlowDocs ==
  {[doc |-> TextDoc("global:"), settings |-> <<>>],
   [doc |-> TextDoc("settings:\nmaxTokenLimit: 40"),
    settings |-> SetKey(<<>>, "maxTokenLimit", 40)],
   [doc |-> TextDoc("settings:\nmaxTokensPerFile: 100000"),
    settings |-> SetKey(<<>>, "maxTokensPerFile", 100000)]}

GitignoreChoices ==
  {NoGitignore,
   [exists |-> TRUE, content |-> "node_modules"],
   [exists |-> TRUE, content |-> "/flattened\n"]}

\* await collect(rootPath) has returned.  In the current copy the user may
\* have cancelled after the last check collect made.
\* Where the workspace folder is: /w, and for the runs of the current copy
\* with the default limits also a folder below a directory named src.
FlowRoots(v, settings) ==
  IF v = "current" /\ settings = <<>> THEN {"/w", "/srv/src/w"} ELSE {"/w"}

FlowInit ==
  /\ variant \in Variants
  /\ fileList \in FlowLists
  /\ \E d \in FlowDocs :
       /\ doc = d.doc
       /\ ignoreRules = [EmptyRules EXCEPT !.settings = d.settings]
       /\ rootPath \in FlowRoots(variant, d.settings)
  /\ useGitIgnore = TRUE
  /\ maxChunkSize = MaxChunkSizeOf(variant, ignoreRules.settings)
  /\ maxFileSize = MaxFileSizeOf(variant, ignoreRules.settings)
  /\ token \in (IF variant = "current" THEN BOOLEAN ELSE {FALSE})
  /\ cancelRequestedAt = IF token THEN "collect" ELSE ""
  /\ gitignore \in GitignoreChoices
  /\ rpc = "collected"
  /\ tree = NoTree /\ lines = <<>> /\ lineIdx = 0
  /\ section = "null" /\ globalArr = <<>> /\ whitelistArr = <<>>
  /\ blacklistArr = <<>> /\ settingsObj = <<>> /\ ppc = "idle"
  /\ includeExtensions = DefaultExtensions /\ unreadable = {}
  /\ globalRegexes = <<>> /\ whitelistRegexes = <<>> /\ blacklistRegexes = <<>>
  /\ stack = <<>>
  /\ scoredFiles = <<>> /\ fidx = 0 /\ results = <<>>
  /\ chunks = <<>> /\ currentChunk = NoChunk
  /\ outputFiles = <<>> /\ gitignoreWrites = 0 /\ log = <<>>

FlowNext ==
  \/ RequestCancel
  \/ AfterCollect \/ ScoreStep \/ ScoreDone
  \/ BatchStart \/ StatSettles \/ ReadSettles \/ BatchJoin \/ BatchReturn
  \/ ReadDone \/ WriteOutput
  \/ PackStart \/ PackStep \/ PackDone \/ WriteChunk \/ WriteDone
  \/ WriteFails \/ UpdateGitignore

SpecFlowInit ==
  FlowInit /\ GlobIdle /\ ScoreIdle /\ BatchIdle /\ TreeIdle
    /\ EnsureIdle /\ ChunkIdle

SpecFlow == SpecFlowInit /\ [][FlowNext]_vars

(***************************************************************************)
(* The limits on chunks and files.                                         *)
(***************************************************************************)
EntryLength(rel) == TextLen(fileEntry(rel, Disk[rel].content))

\* C11: no output chunk holds content longer than maxChunkSize, whether the
\* chunks come from the packing loop of the earlier copy or from
\* createChunksEfficiently, for every order of the files and every pair of
\* limits.
C11_NoChunkOverMaxChunkSize ==
  \A i \in 1..Len(chunks) : TextLen(chunks[i].content) <= maxChunkSize

\* C12: a file whose entry (separator line and content) is longer than
\* maxFileSize is in no chunk, in the packing loop as in the chunks made of
\* what processFilesInParallel returned.
C12_OversizeEntryInNoChunk ==
  \A i \in 1..Len(chunks) :
    \A k \in 1..Len(chunks[i].files) :
      EntryLength(chunks[i].files[k]) <= maxFileSize

(***************************************************************************)
(* The packing loop loses or repeats no file.                              *)
(***************************************************************************)
\* The `files` manifests of the chunks, one after the other.
RECURSIVE Manifests(_)
Manifests(cs) ==
  IF cs = <<>> THEN <<>> ELSE Head(cs).files \o Manifests(Tail(cs))

ReadFailed(rel) == ~Disk[rel].readOk

SizeSkipped(rel) == Disk[rel].readOk /\ EntryLength(rel) > maxFileSize

IsPacked(rel) == ~ReadFailed(rel) /\ ~SizeSkipped(rel)

NoDuplicates(list) == \A i, j \in 1..Len(list) : i # j => list[i] # list[j]

LoggedAs(via, text) == \E n \in 1..Len(log) : log[n] = [via |-> via, text |-> text]

SkipLogged(rel) ==
  \/ ReadFailed(rel)
       /\ LoggedAs("console.error", "Error reading " \o JoinPath(rootPath, rel))
  \/ SizeSkipped(rel)
       /\ LoggedAs("console.warn", WARN \o " Skipping " \o rel \o " (too large)")

\* The files the loop has gone through.
Packed ==
  IF rpc = "pack" THEN SubSeq(fileList, 1, fidx - 1) ELSE fileList

\* The chunks the loop has made, the open one included while it runs.
PackedChunks ==
  IF rpc = "pack" THEN Append(chunks, currentChunk) ELSE chunks

\* C13: in the packing loop of the earlier copy the manifests of the chunks,
\* one after the other, are the candidate list without the files skipped for
\* their size and the files that could not be read, in the list's order;
\* no file is in two manifests or twice in one; every file left out has its
\* skip or read error logged.
C13_ManifestsAreTheListMinusSkipped ==
  (variant = "earlier" /\ rpc \in {"pack", "write", "gitignore", "returned"})
    => /\ Manifests(PackedChunks) = SelectSeq(Packed, IsPacked)
       /\ NoDuplicates(Manifests(PackedChunks))
       /\ \A i \in 1..Len(Packed) :
            (\A k \in 1..Len(Manifests(PackedChunks)) :
               Manifests(PackedChunks)[k] # Packed[i])
              => SkipLogged(Packed[i])

\* A finished run that closed a chunk and went on, skipped a file for its
\* size and kept others.
C13_Witness ==
  /\ variant = "earlier" /\ rpc = "returned"
  /\ Len(chunks) >= 2
  /\ \E i \in 1..Len(fileList) : SizeSkipped(fileList[i])
  /\ Len(Manifests(chunks)) >= 2

(***************************************************************************)
(* processFilesInParallel on its own: every list of files, batch size and  *)
(* limit.                                                                  *)
(***************************************************************************)
MaxBatchFiles == 3

BatchSizes == {1, 2, 4}

BatchLimits == {100000, 400000}

\* sortedFiles is in the order of the scores: any order of distinct files.
BatchLists ==
  {l \in UNION {[1..n -> DOMAIN Disk] : n \in 0..MaxBatchFiles} :
     \A i, j \in 1..Len(l) : i # j => l[i] # l[j]}

\* processFilesInParallel(files, rootPath, maxFileSize, maxConcurrent) is
\* called.
BatchInit ==
  /\ bFiles \in BatchLists
  /\ bMax \in BatchSizes
  /\ maxFileSize \in BatchLimits
  /\ bStart = 1 /\ bSlots = <<>> /\ bResults = <<>> /\ bErrors = <<>>
  /\ bpc = "batch"
  /\ token = FALSE /\ cancelRequestedAt = "" /\ maxChunkSize = 0
  /\ scoredFiles = <<>> /\ fidx = 0 /\ results = <<>>
  /\ chunks = <<>> /\ currentChunk = NoChunk
  /\ outputFiles = <<>> /\ gitignore = NoGitignore /\ gitignoreWrites = 0
  /\ log = <<>>

BatchNext ==
  BatchStart \/ StatSettles \/ ReadSettles \/ BatchJoin \/ BatchReturn

SpecBatchInit ==
  BatchInit /\ GlobIdle /\ ParseIdle /\ RunIdle /\ ScoreIdle /\ TreeIdle
    /\ StageIdle

SpecBatch == SpecBatchInit /\ [][BatchNext]_vars

\* The file is read and is not over the limit.
Processed(file) ==
  Disk[file].statOk /\ Disk[file].size <= maxFileSize /\ Disk[file].readOk

ResultOf(file) ==
  [file |-> file, content |-> Disk[file].content, rel |-> file,
   size |-> Disk[file].size]

\* The files of the batches that are over.
Joined == SubSeq(bFiles, 1, Min(Len(bFiles), bStart - 1))

\* C14: processFilesInParallel returns the files that were read and are not
\* over the limit, in the order of its input, for every batch size and every
\* order in which the reads of a batch settle; a file that fails takes
\* nothing but itself out of the result.
C14_ResultsAreInputSubsequence ==
  /\ bpc \in {"batch", "await", "returned"}
       => bResults = [i \in 1..Len(SelectSeq(Joined, Processed)) |->
                        ResultOf(SelectSeq(Joined, Processed)[i])]
  /\ bpc = "returned" => Joined = bFiles

\* Batches of two; the first batch lost a file to the limit and one to a
\* read error, the error coming first although its file comes second; the
\* third file is returned.
C14_Witness ==
  /\ bpc = "returned" /\ bMax = 2 /\ Len(bFiles) = 3
  /\ Len(bResults) = 1
  /\ ~Disk[bFiles[2]].readOk
  /\ Disk[bFiles[1]].size > maxFileSize
  /\ Len(log) >= 2
  /\ log[1].via = "console.error"
  /\ log[2].via = "console.warn"

(***************************************************************************)
(* Cancellation (current copy).                                            *)
(***************************************************************************)
\* A cancellation check saw the signal: the error it threw was caught at
\* lines 1329-1333.
CancellationObserved == LoggedAs("console.error", CancelledMessage)

\* The user cancelled before tracker.increment('Writing output file...').
CancelledBeforeWriteStep == cancelRequestedAt \in {"collect", "score", "read"}

NothingWritten == outputFiles = <<>> /\ gitignoreWrites = 0

\* C15: in the current copy, once a cancellation check has seen the signal
\* the run is over and writes nothing from then on; and when the user
\* cancelled before the write step began, no output file is ever written
\* and .gitignore is never modified.
C15_CancelledRunWritesNothing ==
  /\ [](variant = "current"
          => /\ CancellationObserved => (rpc = "returned" /\ NothingWritten)
             /\ CancelledBeforeWriteStep => NothingWritten)
  /\ [][(variant = "current" /\ CancellationObserved)
          => (outputFiles' = outputFiles /\ gitignore' = gitignore
              /\ rpc' = rpc)]_vars

\* The user cancelled while the files were read; files were read, there is
\* no .gitignore yet, and the run ended at the check of the write step.
C15_Witness ==
  /\ variant = "current" /\ cancelRequestedAt = "read"
  /\ rpc = "returned" /\ CancellationObserved
  /\ results # <<>> /\ chunks # <<>>
  /\ gitignore = NoGitignore

(***************************************************************************)
(* Empty results (current copy).                                           *)
(***************************************************************************)
NoCandidate == fileList = <<>>

NoneScored ==
  fileList # <<>> /\ \A i \in 1..Len(fileList) : ~Disk[fileList[i]].statOk

NoneRead ==
  /\ \E i \in 1..Len(fileList) : Disk[fileList[i]].statOk
  /\ \A i \in 1..Len(fileList) : ~Processed(fileList[i])

\* C16: in the current copy a run that collected no candidate, could score
\* none or could read none writes no output file and leaves .gitignore
\* alone, and, unless it was cancelled on the way, ends with the message
\* that says so.
C16_EmptyResultWritesNothing ==
  (variant = "current" /\ rpc # "idle")
    => /\ (NoCandidate \/ NoneScored \/ NoneRead) => NothingWritten
       /\ (rpc = "returned" /\ ~CancellationObserved)
            => /\ NoCandidate =>
                    LoggedAs("showWarningMessage",
                             "No matching files found. Check your ignore patterns and file extensions.")
               /\ NoneScored =>
                    LoggedAs("showWarningMessage",
                             "No files could be processed. Check file permissions and try again.")
               /\ NoneRead =>
                    LoggedAs("showErrorMessage",
                             "Failed to process any files. Please check the console for errors.")

\* A run over two files that were scored, one too large and one unreadable,
\* ended with the message and without .gitignore.
C16_Witness ==
  /\ variant = "current" /\ rpc = "returned" /\ ~token
  /\ Len(scoredFiles) = 2 /\ NoneRead
  /\ LoggedAs("showErrorMessage",
              "Failed to process any files. Please check the console for errors.")
  /\ gitignore = NoGitignore

(***************************************************************************)
(* What an artifact holds.                                                 *)
(***************************************************************************)
\* The text as the pieces of literal text between the contents of files,
\* whatever the pieces it was put together from.
RECURSIVE Normal(_)
Normal(t) ==
  IF t = <<>> THEN <<>>
  ELSE IF Head(t).len = 0 THEN Normal(Tail(t))
  ELSE LET rest == Normal(Tail(t)) IN
       IF rest # <<>> /\ Head(t).kind = "lit" /\ Head(rest).kind = "lit"
       THEN <<Lit(Head(t).text \o Head(rest).text)>> \o Tail(rest)
       ELSE <<Head(t)>> \o rest

\* The entries of the files of a manifest, one after the other.
RECURSIVE EntriesOf(_)
EntriesOf(files) ==
  IF files = <<>> THEN EmptyText
  ELSE fileEntry(Head(files), Disk[Head(files)].content) \o EntriesOf(Tail(files))

\* C17: every artifact written is the line `=== Directory Tree ===`, the
\* tree of its chunk's files, an empty line and the chunk's content, and the
\* content is the entries of the chunk's files in the manifest's order and
\* nothing else: nothing comes before the first entry.
C17_ArtifactIsTreeThenEntries ==
  \A i \in 1..Len(outputFiles) :
    /\ Normal(outputFiles[i].text)
         = Normal(<<Lit("=== Directory Tree ===\n"
                        \o buildDirectoryTree(chunks[i].files) \o "\n\n")>>
                  \o chunks[i].content)
    /\ Normal(chunks[i].content) = Normal(EntriesOf(chunks[i].files))

(***************************************************************************)
(* buildDirectoryTree on its own: every list of up to MaxTreePaths paths,  *)
(* repeated paths included.                                                *)
(***************************************************************************)
MaxTreePaths == 3

\* Relative paths of collected files; directories may have any name.
TreePathPool ==
  {"a/b.js", "a/c.js", "d.js", "B.js", "a/b/e.js", "constructor/x.js",
   "src/toString/y.js"}

TreeInit ==
  /\ tPaths \in UNION {[1..n -> TreePathPool] : n \in 0..MaxTreePaths}
  /\ treeString = ""
  /\ tpc = "call"

\* treeString = buildDirectoryTree(chunk.files)
Render ==
  /\ tpc = "call"
  /\ treeString' = buildDirectoryTree(tPaths)
  /\ tpc' = "returned"
  /\ UNCHANGED tPaths
  /\ UNCHANGED <<globVars, parseVars, runVars, scoreVars, flowVars, batchVars,
                 stageVars>>

TreeNext == Render

SpecTreeInit ==
  TreeInit /\ GlobIdle /\ ParseIdle /\ RunIdle /\ ScoreIdle /\ FlowIdle /\ BatchIdle
    /\ StageIdle

SpecTree == SpecTreeInit /\ [][TreeNext]_vars

\* The directories and files the paths name: every path and every directory
\* above it, as sequences of names.
NamedBy(paths) ==
  UNION {{SubSeq(Split(paths[i], "/"), 1, n) : n \in 1..Len(Split(paths[i], "/"))} :
           i \in 1..Len(paths)}

\* C18: buildDirectoryTree lists, at each level, the children the paths name
\* there in ascending order, `|- ` before each but the last and `+- ` before
\* the last, the lines below a child indented by `|  `, or by three spaces
\* below a last child; the result depends on the set of the paths alone.
\* For [a/b.js, a/c.js, d.js]: a with b.js and c.js below it, then d.js.
C18_TreeListsEveryChildInOrder ==
  tpc = "returned"
    => /\ treeString = treeToString(NamedBy(tPaths), <<>>, "")
       /\ tPaths = <<"a/b.js", "a/c.js", "d.js">>
            => treeString = "|- a\n|  |- b.js\n|  +- c.js\n+- d.js\n"
       /\ tPaths = <<"d.js", "a/b/e.js", "d.js">>
            => treeString = "|- a\n|  +- b\n|     +- e.js\n+- d.js\n"

(***************************************************************************)
(* The estimate and the packing loop.                                      *)
(***************************************************************************)
\* The list estimateOutputFiles is given: each file with the length of its
\* entry as its size.
EntrySizes(list) == [i \in 1..Len(list) |-> [size |-> EntryLength(list[i])]]

\* C19: for a list whose files are all read and none over maxFileSize, the
\* number of chunks estimateOutputFiles computes from the lengths of the
\* entries is the number of chunks the packing loop of the earlier copy
\* makes of the list, the empty list and a first file longer than
\* maxChunkSize included.
C19_EstimateEqualsChunksPacked ==
  (/\ variant = "earlier" /\ rpc \in {"write", "gitignore", "returned"}
   /\ \A i \in 1..Len(fileList) : IsPacked(fileList[i]))
    => estimateOutputFiles(EntrySizes(fileList), maxChunkSize).estimatedFiles
         = Len(chunks)

(***************************************************************************)
(* The decision point (current copy).                                      *)
(***************************************************************************)
\* files.reduce((sum, f) => sum + f.size, 0) of ensureSingleFileOutput.
RECURSIVE TotalSize(_)
TotalSize(files) ==
  IF files = <<>> THEN 0 ELSE Head(files).size + TotalSize(Tail(files))

\* The modal question of ensureSingleFileOutput has been put to the user.
PolicyChoiceMade ==
  \E n \in 1..Len(log) :
    /\ log[n].via = "showWarningMessage"
    /\ EndsWith(log[n].text, "Choose how to proceed:")

\* C20: in the current copy, when the scored files hold more than the size
\* budget, reading, packing and writing start only after the user has made
\* a choice (go on, filter, raise the limit, abort) at the decision point.
C20_OverBudgetWaitsForChoice ==
  (/\ variant = "current"
   /\ TotalSize(scoredFiles) > maxChunkSize
   /\ bpc # "idle" \/ chunks # <<>> \/ outputFiles # <<>>)
    => PolicyChoiceMade

(***************************************************************************)
(* Pruning and the output directory (collect).                             *)
(***************************************************************************)
\* The four checks collect makes on a file: global ignore, blacklist,
\* whitelist, extension.
PassesFileChecks(f) ==
  /\ ~matchesAny(f, globalRegexes)
  /\ ~matchesAny(f, blacklistRegexes)
  /\ Len(whitelistRegexes) = 0 \/ matchesAny(f, whitelistRegexes)
  /\ extname(f) \in includeExtensions

InOutputDirectory(f) == StartsWith(f, "flattened/")

\* C23: in the current copy a directory is skipped only when every file
\* below it fails the checks made on files, so the candidate list of a run
\* that could read every directory is the list of the files of the tree,
\* outside the output directory, that pass the four checks.
C23_PruningKeepsCandidateSet ==
  (variant = "current" /\ rpc = "collected" /\ unreadable = {})
    => Pushed = {f \in TreeFiles(tree) : PassesFileChecks(f) /\ ~InOutputDirectory(f)}

\* The patterns a .gitignore holds: its lines that are neither empty nor
\* comments.
GitignorePatterns(content) ==
  LET ls == Split(content, "\n") IN
  {Trim(ls[i]) : i \in {j \in 1..Len(ls) : Trim(ls[j]) # "" /\ ~StartsWith(Trim(ls[j]), "#")}}

\* C21: when useGitIgnore is true, every pattern of the workspace's
\* .gitignore is one of the global-ignore patterns the collector of the
\* current pipeline runs with, so no collected file matches one.
C21_GitignorePatternsAreGlobalIgnores ==
  (variant = "current" /\ useGitIgnore /\ gitignore.exists
     /\ rpc \in {"collect", "collected"})
    => /\ \A g \in GitignorePatterns(gitignore.content) :
            \E k \in 1..Len(ignoreRules.global) : ignoreRules.global[k] = g
       /\ \A f \in Pushed :
            \A g \in GitignorePatterns(gitignore.content) :
              ~RegExpTest(toRegex(g), f)

\* C29: no file of the output directory `flattened` is in the candidate
\* list, in either copy, whatever the rules and the extensions.
C29_OutputDirectoryNeverCollected ==
  \A i \in 1..Len(fileList) : ~InOutputDirectory(fileList[i])

(***************************************************************************)
(* Scores and the workspace folder; the chunks of the packing loop.        *)
(***************************************************************************)
\* The score of a file of the workspace by its relative path, its size and
\* its age.
RelativeScore(rel) ==
  scoreFile(rel, [size |-> Disk[rel].size, age |-> Disk[rel].age])

\* C27: the score of a file depends only on its path relative to the
\* workspace root, its size, its extension and its age, wherever the root
\* is.
C27_ScoreIgnoresWorkspaceLocation ==
  \A i \in 1..Len(scoredFiles) :
    scoredFiles[i].score = RelativeScore(scoredFiles[i].file)

\* C30: the packing loop of the earlier copy never emits an empty chunk,
\* not even when the first accepted entry alone is longer than
\* maxChunkSize, so no artifact holds a header and nothing else.
C30_NoEmptyChunk ==
  variant = "earlier"
    => \A i \in 1..Len(chunks) :
         Len(chunks[i].files) > 0 /\ TextLen(chunks[i].content) > 0

(***************************************************************************)
(* The read step of the current copy over more files than one batch holds. *)
(***************************************************************************)
MaxReadFiles == 5

\* The files of the workspace in the order collect finds them.
ReadOrder ==
  <<"src/a.js", "src/b.ts", "src/locked.js", "test/x.js", "lib/big.py",
    "lib/big2.py", "web/gone.html">>

ReadLists ==
  {SubSeq(ReadOrder, k, k + MaxReadFiles - 1) :
     k \in 1..(Len(ReadOrder) - MaxReadFiles + 1)}

\* Rule documents with and without the maxConcurrentFiles setting.
ReadDocs ==
  {[doc |-> TextDoc("global:"), settings |-> <<>>],
   [doc |-> TextDoc("settings:\nmaxConcurrentFiles: 2"),
    settings |-> SetKey(<<>>, "maxConcurrentFiles", 2)]}

\* await collect(rootPath) has returned in the current copy.
ReadInit ==
  /\ variant = "current"
  /\ fileList \in ReadLists
  /\ \E d \in ReadDocs :
       /\ doc = d.doc
       /\ ignoreRules = [EmptyRules EXCEPT !.settings = d.settings]
  /\ rootPath = "/w" /\ useGitIgnore = TRUE
  /\ maxChunkSize = MaxChunkSizeOf(variant, ignoreRules.settings)
  /\ maxFileSize = MaxFileSizeOf(variant, ignoreRules.settings)
  /\ token = FALSE /\ cancelRequestedAt = ""
  /\ gitignore = NoGitignore
  /\ rpc = "collected"
  /\ tree = NoTree /\ lines = <<>> /\ lineIdx = 0
  /\ section = "null" /\ globalArr = <<>> /\ whitelistArr = <<>>
  /\ blacklistArr = <<>> /\ settingsObj = <<>> /\ ppc = "idle"
  /\ includeExtensions = DefaultExtensions /\ unreadable = {}
  /\ globalRegexes = <<>> /\ whitelistRegexes = <<>> /\ blacklistRegexes = <<>>
  /\ stack = <<>>
  /\ scoredFiles = <<>> /\ fidx = 0 /\ results = <<>>
  /\ chunks = <<>> /\ currentChunk = NoChunk
  /\ outputFiles = <<>> /\ gitignoreWrites = 0 /\ log = <<>>

ReadNext ==
  \/ RequestCancel
  \/ AfterCollect \/ ScoreStep \/ ScoreDone
  \/ BatchStart \/ StatSettles \/ ReadSettles \/ BatchJoin \/ BatchReturn
  \/ ReadDone \/ WriteOutput \/ WriteFails \/ UpdateGitignore

SpecReadInit ==
  ReadInit /\ GlobIdle /\ ScoreIdle /\ BatchIdle /\ TreeIdle
    /\ EnsureIdle /\ ChunkIdle

SpecRead == SpecReadInit /\ [][ReadNext]_vars

\* settings.maxConcurrentFiles of the rule document, 4 when it is absent.
MaxConcurrentFilesOf(settings) ==
  IF "maxConcurrentFiles" \in DOMAIN settings THEN settings["maxConcurrentFiles"] ELSE 4

\* C22: in the current pipeline the files read concurrently in one batch
\* are at most the maxConcurrentFiles of the rule document's settings, 4
\* when the setting is absent.
C22_BatchWithinMaxConcurrentFiles ==
  (variant = "current" /\ rpc = "read")
    => Len(bSlots) <= MaxConcurrentFilesOf(ignoreRules.settings)

\* C25: cancellation is checked between batches: once the user has cancelled
\* during the read step, no further batch is started.
C25_NoBatchStartsAfterCancel ==
  [][(token /\ rpc = "read") => ~(bpc = "batch" /\ bpc' = "await")]_vars

(***************************************************************************)
(* The batches of processFilesInParallel, one after another.               *)
(***************************************************************************)
\* The promises of the batch that have not settled.
InFlight == {k \in 1..Len(bSlots) : bSlots[k].state \in {"stat", "read"}}

\* The reads in flight are of the files of one slice files.slice(i, i +
\* maxConcurrent), at most maxConcurrent of them.
OneBatchInFlight ==
  /\ Len(bSlots) <= bMax
  /\ bSlots # <<>> =>
       /\ (bStart - 1) % bMax = 0
       /\ bStart + Len(bSlots) - 1 <= Len(bFiles)
       /\ bpc = "await"

\* A batch is started only when no promise is left from the one before, and
\* results grows only when every promise of the batch has settled.
BatchesInTurn ==
  /\ (bSlots' # <<>> /\ bSlots = <<>>) => (bpc = "batch" /\ bStart' = bStart)
  /\ bStart' # bStart => (InFlight = {} /\ bpc = "await" /\ bSlots' = <<>>)
  /\ bResults' # bResults =>
       /\ InFlight = {} /\ bpc = "await"
       /\ Len(bResults') > Len(bResults)
       /\ SubSeq(bResults', 1, Len(bResults)) = bResults

\* A step taken while some promise of the batch is unsettled: one of the
\* async functions going on.
ReadGoesOn == InFlight # {} /\ bSlots' # bSlots

\* Such a step settles or advances one promise and leaves results, the
\* batches and the other promises alone.
ReadTouchesOwnSlot ==
  /\ UNCHANGED <<bResults, bStart, bFiles, bMax, bpc>>
  /\ Len(bSlots') = Len(bSlots)
  /\ \E k \in InFlight : \A j \in 1..Len(bSlots) : j # k => bSlots'[j] = bSlots[j]

\* What the step adds to errors is at most one message.
ErrorsGrowByOne ==
  bErrors' = bErrors \/ \E m \in {BatchError(bFiles[i]) : i \in 1..Len(bFiles)} :
                           bErrors' = Append(bErrors, m)

\* C24, as the code has it: the batches run strictly one after another, at
\* most maxConcurrent reads are in flight and all of one batch, no read of
\* the next batch starts before every read of the batch has resolved,
\* results is appended to only after the whole batch has resolved; during a
\* batch a concurrent read writes its own promise and, when it fails, one
\* message to the shared errors array, and nothing else.
C24_BatchesRunOneAtATime ==
  /\ []OneBatchInFlight
  /\ [][BatchesInTurn /\ (ReadGoesOn => (ReadTouchesOwnSlot /\ ErrorsGrowByOne))]_vars

\* C24 as stated: the same, with no shared mutable state other than results
\* written while a batch is in flight.
C24_ReadsWriteNoSharedState ==
  /\ []OneBatchInFlight
  /\ [][BatchesInTurn /\ (ReadGoesOn => (ReadTouchesOwnSlot /\ UNCHANGED bErrors))]_vars

\* A second batch is in flight after a batch that gave a result and an
\* error.
C24_Witness ==
  /\ bpc = "await" /\ bStart > 1 /\ InFlight # {}
  /\ Len(bResults) > 0 /\ Len(bErrors) > 0

(***************************************************************************)
(* createChunksEfficiently applied to the results of a read.               *)
(***************************************************************************)
MaxChunkFiles == 3

\* What the read step may hand over: [rel, content], content being the
\* length of the text.  fit.txt alone fills the hard limit to the last
\* character, over.txt is one character longer.
ChunkFilePool ==
  {[rel |-> "src/a.js", content |-> 100],
   [rel |-> "empty.css", content |-> 0],
   [rel |-> "lib/big.py", content |-> 300000],
   [rel |-> "lib/big2.py", content |-> 300000],
   [rel |-> "fit.txt", content |-> 512 * 1024 - 24],
   [rel |-> "over.txt", content |-> 512 * 1024 - 24]}

ChunkLists ==
  {l \in UNION {[1..n -> ChunkFilePool] : n \in 0..MaxChunkFiles} :
     \A i, j \in 1..Len(l) : i # j => l[i].rel # l[j].rel}

\* createChunksEfficiently(files, maxChunkSize) is called.
ChunkInit ==
  /\ cFiles \in ChunkLists
  /\ maxChunkSize \in {4, 200000}
  /\ cResult = <<>>
  /\ cpc = "call"
  /\ token = FALSE /\ cancelRequestedAt = "" /\ maxFileSize = 0
  /\ scoredFiles = <<>> /\ fidx = 0 /\ results = <<>>
  /\ chunks = <<>> /\ currentChunk = NoChunk
  /\ outputFiles = <<>> /\ gitignore = NoGitignore /\ gitignoreWrites = 0
  /\ log = <<>>

\* chunks = createChunksEfficiently(files, maxChunkSize)
CallCreateChunks ==
  /\ cpc = "call"
  /\ cResult' = createChunksEfficiently(cFiles, maxChunkSize)
  /\ cpc' = "returned"
  /\ UNCHANGED cFiles
  /\ UNCHANGED <<globVars, parseVars, runVars, scoreVars, flowVars, batchVars,
                 treeVars, configVars, ensureVars>>

ChunkNext == CallCreateChunks

SpecChunkInit ==
  ChunkInit /\ GlobIdle /\ ParseIdle /\ RunIdle /\ ScoreIdle /\ BatchIdle /\ TreeIdle
    /\ ConfigDefault /\ EnsureIdle

SpecChunk == SpecChunkInit /\ [][ChunkNext]_vars

\* The length of the entry of the i-th file handed over.
InputEntryLength(i) == TextLen(fileEntry(cFiles[i].rel, cFiles[i].content))

RECURSIVE EntryLengthOver(_)
EntryLengthOver(S) ==
  IF S = {} THEN 0
  ELSE LET k == CHOOSE k \in S : TRUE IN InputEntryLength(k) + EntryLengthOver(S \ {k})

\* The files of the input the chunk's manifest names, and the others.
IncludedAt == {i \in 1..Len(cFiles) : \E j \in 1..Len(cResult[1].files) :
                                         cResult[1].files[j] = cFiles[i].rel}
SkippedAt == (1..Len(cFiles)) \ IncludedAt

\* The elements of a sequence at the indices of S, in the sequence's order.
RECURSIVE RelsAt(_, _)
RelsAt(S, i) ==
  IF i > Len(cFiles) THEN <<>>
  ELSE (IF i \in S THEN <<cFiles[i].rel>> ELSE <<>>) \o RelsAt(S, i + 1)

RECURSIVE InputEntriesAt(_, _)
InputEntriesAt(S, i) ==
  IF i > Len(cFiles) THEN EmptyText
  ELSE (IF i \in S THEN fileEntry(cFiles[i].rel, cFiles[i].content) ELSE EmptyText)
         \o InputEntriesAt(S, i + 1)

\* The warning at the head of the content when files were skipped.
SkipWarning(skipped) ==
  IF skipped = <<>> THEN EmptyText
  ELSE <<Lit("\n\n=== WARNING: CONTENT TRUNCATED ===\nThe following "
             \o NumberToString(Len(skipped))
             \o " files were skipped to stay within LLM token limits:\n"
             \o Join(skipped, "\n") \o "\n")>>

\* C28: createChunksEfficiently returns exactly one chunk for every input,
\* the empty list included; the included and the skipped files partition
\* the input, each in the input's order; a file is skipped exactly when
\* appending its entry to the entries included before it would exceed
\* 512 * 1024 characters, so the entries accumulated never exceed that and a
\* smaller file after a skipped one is still included.
C28_OneChunkSkippingWhatOverflows ==
  cpc = "returned" =>
    /\ Len(cResult) = 1
    /\ cResult[1].files = RelsAt(IncludedAt, 1)
    /\ \A i \in 1..Len(cFiles) :
         i \in SkippedAt <=>
           EntryLengthOver({j \in IncludedAt : j < i}) + InputEntryLength(i) > 512 * 1024
    /\ EntryLengthOver(IncludedAt) <= 512 * 1024
    /\ Normal(cResult[1].content)
         = Normal(SkipWarning(RelsAt(SkippedAt, 1)) \o InputEntriesAt(IncludedAt, 1))

\* A file was skipped and a smaller file after it is in the chunk.
C28_Witness ==
  /\ cpc = "returned"
  /\ \E i \in SkippedAt : \E j \in IncludedAt :
       i < j /\ cFiles[j].content < cFiles[i].content

(***************************************************************************)
(* async function ensureSingleFileOutput(files, maxChunkSize) (lines       *)
(* 294-351).  files: <<[file, size, score], ...>>; choice is what the modal *)
(* showWarningMessage resolves to, "" standing for undefined.  The result  *)
(* says whether the function returned or threw and whether it asked; the   *)
(* text of the question is not modelled.                                   *)
(***************************************************************************)
INCREASE_LIMIT == "Increase token limit"
FILTER_FILES == "Filter to smallest files"
CANCEL == "Cancel"

\* files.reduce((sum, f) => sum + f.size, 0)
RECURSIVE SumOfSizes(_)
SumOfSizes(files) ==
  IF files = <<>> THEN 0 ELSE Head(files).size + SumOfSizes(Tail(files))

\* The array left in the order it came in.
KeepOrder(list, n) == SubSeq(list, 1, n)

RECURSIVE InsertBySize(_, _)
InsertBySize(sorted, x) ==
  IF sorted = <<>> THEN <<x>>
  ELSE IF Head(sorted).size <= x.size
       THEN <<Head(sorted)>> \o InsertBySize(Tail(sorted), x)
       ELSE <<x>> \o sorted

\* files.sort((a, b) => a.size - b.size) of the first n elements:
\* Array.prototype.sort is stable.
RECURSIVE SortBySize(_, _)
SortBySize(list, n) ==
  IF n = 0 THEN <<>> ELSE InsertBySize(SortBySize(list, n - 1), list[n])

\* The loop of lines 336-340 from file i on.
RECURSIVE FilterLoop(_, _, _, _, _)
FilterLoop(sortedFiles, i, chunkLimit, currentSize, filteredFiles) ==
  IF i > Len(sortedFiles) THEN filteredFiles
  ELSE IF currentSize + sortedFiles[i].size > chunkLimit THEN filteredFiles
  ELSE FilterLoop(sortedFiles, i + 1, chunkLimit, currentSize + sortedFiles[i].size,
                  Append(filteredFiles, sortedFiles[i]))

EnsureReturns(files, chunkLimit, asked) ==
  [kind |-> "returned", files |-> files, maxChunkSize |-> chunkLimit,
   message |-> "", asked |-> asked]

EnsureThrows(message) ==
  [kind |-> "thrown", files |-> <<>>, maxChunkSize |-> 0, message |-> message,
   asked |-> TRUE]

\* Math.ceil(totalSize * 1.2): the product of an integer and the double 1.2
\* rounds to the integer 6 * totalSize / 5 whenever that is one.
RequiredLimit(totalSize) == (totalSize * 6 + 4) \div 5

\* [result, files]: what the call gives and the array `files` after it,
\* which the filter sorts in place.
ensureSingleFileOutput(files, chunkLimit, choice) ==
  LET totalSize == SumOfSizes(files) IN
  IF totalSize <= chunkLimit
  THEN [result |-> EnsureReturns(files, chunkLimit, FALSE), files |-> files]
  ELSE IF choice = CANCEL \/ choice = ""
  THEN [result |-> EnsureThrows("Operation cancelled by user"), files |-> files]
  ELSE IF choice = INCREASE_LIMIT
  THEN [result |-> EnsureReturns(files, RequiredLimit(totalSize), TRUE), files |-> files]
  ELSE IF choice = FILTER_FILES
  THEN LET sortedFiles == SortBySize(files, Len(files))
           filteredFiles == FilterLoop(sortedFiles, 1, chunkLimit, 0, <<>>)
       IN  IF Len(filteredFiles) = 0
           THEN [result |-> EnsureThrows("No files small enough to fit within the limit. Try increasing the token limit."),
                 files |-> sortedFiles]
           ELSE [result |-> EnsureReturns(filteredFiles, chunkLimit, TRUE),
                 files |-> sortedFiles]
  ELSE [result |-> EnsureReturns(files, chunkLimit, TRUE), files |-> files]

MaxEnsureFiles == 3

\* Scored files: two of one size, an empty one, and larger ones.
EnsureFilePool ==
  {[file |-> "src/a.js", size |-> 10, score |-> 95],
   [file |-> "src/b.js", size |-> 10, score |-> 95],
   [file |-> "empty.css", size |-> 0, score |-> 70],
   [file |-> "lib/c.py", size |-> 30, score |-> 85],
   [file |-> "web/d.html", size |-> 100, score |-> 60]}

EnsureLists ==
  {l \in UNION {[1..n -> EnsureFilePool] : n \in 0..MaxEnsureFiles} :
     \A i, j \in 1..Len(l) : i # j => l[i].file # l[j].file}

EnsureLimits == {0, 9, 10, 25, 50, 200}

EnsureChoices == {INCREASE_LIMIT, FILTER_FILES, CANCEL, ""}

\* ensureSingleFileOutput(files, maxChunkSize) is called; eChoice is what
\* the user will answer if asked.
EnsureInit ==
  /\ eFiles \in EnsureLists
  /\ eMaxChunkSize \in EnsureLimits
  /\ eChoice \in EnsureChoices
  /\ eResult = NoEnsureResult
  /\ epc = "call"

CallEnsureSingleFileOutput ==
  /\ epc = "call"
  /\ LET r == ensureSingleFileOutput(eFiles, eMaxChunkSize, eChoice) IN
       /\ eResult' = r.result
       /\ eFiles' = r.files
  /\ epc' = "returned"
  /\ UNCHANGED <<eMaxChunkSize, eChoice>>
  /\ UNCHANGED <<globVars, parseVars, runVars, scoreVars, flowVars, batchVars,
                 treeVars, configVars, chunkVars>>

EnsureNext == CallEnsureSingleFileOutput

SpecEnsureInit ==
  EnsureInit /\ GlobIdle /\ ParseIdle /\ RunIdle /\ ScoreIdle /\ FlowIdle
    /\ BatchIdle /\ TreeIdle /\ ConfigDefault /\ ChunkIdle

SpecEnsure == SpecEnsureInit /\ [][EnsureNext]_vars

\* The elements of a sequence.
Elements(list) == {list[i] : i \in 1..Len(list)}

\* out is the longest run of the smallest files of the input, in ascending
\* size, whose sizes add up to at most the limit.
SmallestThatFit(out, input, limit) ==
  /\ Len(out) > 0
  /\ Elements(out) \subseteq Elements(input)
  /\ \A i, j \in 1..Len(out) : i < j => (out[i] # out[j] /\ out[i].size <= out[j].size)
  /\ SumOfSizes(out) <= limit
  /\ \A f \in Elements(input) \ Elements(out) :
       /\ \A k \in 1..Len(out) : out[k].size <= f.size
       /\ SumOfSizes(out) + f.size > limit

\* What a call with the input `input` may give.
EnsureContract(input, limit, choice, r) ==
  IF SumOfSizes(input) <= limit
  THEN r.kind = "returned" /\ r.files = input /\ r.maxChunkSize = limit /\ ~r.asked
  ELSE /\ r.asked
       /\ choice \in {CANCEL, ""} => r.kind = "thrown"
       /\ choice = INCREASE_LIMIT =>
            /\ r.kind = "returned" /\ r.files = input
            /\ r.maxChunkSize >= SumOfSizes(input)
       /\ choice = FILTER_FILES =>
            IF \A f \in Elements(input) : f.size > limit
            THEN r.kind = "thrown"
            ELSE /\ r.kind = "returned" /\ r.maxChunkSize = limit
                 /\ SmallestThatFit(r.files, input, limit)

\* C26: ensureSingleFileOutput returns its input unchanged and asks nothing
\* when the total size is at most maxChunkSize; with 'Filter to smallest
\* files' it returns the longest prefix of the files in ascending size whose
\* total is at most maxChunkSize and throws when not even the smallest file
\* fits; with 'Increase token limit' it returns all the files with a
\* maxChunkSize of at least the total; with 'Cancel' or no choice it throws.
C26_EnsureSingleFileOutputContract ==
  [][(epc = "call" /\ epc' = "returned")
       => EnsureContract(eFiles, eMaxChunkSize, eChoice, eResult')]_vars

\* The filter was chosen and returned some of the files, the input not
\* being in ascending size.
C26_Witness ==
  /\ epc = "returned" /\ eChoice = FILTER_FILES
  /\ eResult.kind = "returned" /\ eResult.asked
  /\ Len(eResult.files) > 1 /\ Len(eResult.files) < Len(eFiles)
  /\ eResult.files[1].size < eResult.files[2].size

====
